---------------------------- MODULE Spec2Model ----------------------------
(***************************************************************************)
(* Logical-replication orchestration of replication_setup.py.              *)
(*                                                                         *)
(* One run of main() is a walk through check_env_vars and the stages of    *)
(* setup_replication.  Every database call of the script (opening a        *)
(* connection, one statement, a commit) is one step; the step that leaves  *)
(* a `with` block also closes its connection, and the step in which a      *)
(* function returns also takes the branch setup_replication makes on the   *)
(* returned value.  The two servers are the shared state: the primary's    *)
(* settings and publication catalog, the replica's subscription catalog.   *)
(* A database call either returns or raises; which one is the              *)
(* environment's choice, except where the server decides it (CREATE of a   *)
(* name the catalog already holds raises).                                 *)
(***************************************************************************)
EXTENDS Integers, Sequences, FiniteSets

\* ---------------------------------------------------------------- bounds
\* Required environment variables that may be absent or empty in one run.
MaxUnset == 1

\* Most orders the orders table holds.
MaxOrders == 1
MaxQuantity == 2
MaxLoads == 1
\* Longest answer the operator types at database_setup's prompt.
MaxAnswer == 3
\* Most products in the sample data file.
MaxSample == 2

\* ------------------------------------------------------ program constants
\* Threshold below which max_replication_slots draws a warning.
MinReplicationSlots == 5
\* Threshold below which max_wal_senders draws a warning.
MinWalSenders == 10
\* LIMIT of the status report's per-relation query.
StatsLimit == 10

publication_name_const == "products_publication"
subscription_name_const == "sales_subscription"

\* The variables check_env_vars requires.
required_vars ==
    << "AZURE_POSTGRES_PRIMARY_HOST", "AZURE_POSTGRES_PRIMARY_USER",
       "AZURE_POSTGRES_PRIMARY_PASSWORD", "AZURE_POSTGRES_PRIMARY_SERVER_NAME",
       "AZURE_POSTGRES_REPLICA_HOST", "AZURE_POSTGRES_REPLICA_USER",
       "AZURE_POSTGRES_REPLICA_PASSWORD", "AZURE_POSTGRES_REPLICA_SERVER_NAME" >>

RequiredVarSet == { required_vars[i] : i \in 1..Len(required_vars) }

\* os.environ restricted to the required variables: each is absent (None),
\* the empty string, or a non-empty value.
EnvValues == {"absent", "empty", "set"}
Unsettings ==
    UNION { [ S -> {"absent", "empty"} ] :
              S \in { T \in SUBSET RequiredVarSet : Cardinality(T) <= MaxUnset } }
Environments ==
    { [ v \in RequiredVarSet |-> IF v \in DOMAIN u THEN u[v] ELSE "set" ] :
        u \in Unsettings }

\* PRIMARY_DB_CONFIG as the subscription's connection string carries it.
PRIMARY_DB_CONFIG ==
    [ host |-> "primary-host", user |-> "primary-user",
      password |-> "primary-password", database |-> "products",
      sslmode |-> "require" ]

\* REPLICA_DB_CONFIG.
REPLICA_DB_CONFIG ==
    [ host |-> "replica-host", user |-> "replica-user",
      password |-> "replica-password", database |-> "sales",
      sslmode |-> "require" ]

\* ------------------------------------------------------------ the servers
WalLevels == {"logical", "replica", "minimal"}
SlotValues == {MinReplicationSlots - 2, MinReplicationSlots - 1, MinReplicationSlots}
SenderValues == {MinWalSenders - 1, MinWalSenders}
ServerSettings ==
    [ wal_level : WalLevels, max_replication_slots : SlotValues,
      max_wal_senders : SenderValues ]

Procs == {1, 2}
Stages == << "primary_connect", "preflight", "publication",
             "replica_connect", "subscription", "status_report" >>
StageSet == { Stages[i] : i \in 1..Len(Stages) }

VARIABLES
    server,           \* the primary's settings, as SHOW returns them
    pg_publication,   \* the primary's committed publication catalog: pubnames
    pg_subscription,  \* the replica's subscription catalog: rows
    pg_subscription_rel, \* the replica's per-relation sync states: rows
    run,              \* per process: the state of its current run of main()
    history,          \* what is remembered of the runs before the current ones
    database,         \* database_setup.py: per endpoint, its tables and product rows
    setup,            \* database_setup.py: the state of the current setup call
    shop_db,          \* streamlit_app.py: the products and the orders table
    shop,             \* streamlit_app.py: its caches and the current page run
    app               \* app.py: the times of the load transactions that are open

\* The state of replication_setup.py and its two servers' catalogs, and the
\* state of the repository's other scripts.
replication_vars ==
    << server, pg_publication, pg_subscription, pg_subscription_rel, run, history >>
database_setup_vars == << database, setup >>
streamlit_vars == << shop_db, shop, app >>
scripts_vars == << database_setup_vars, streamlit_vars >>
vars == << replication_vars, scripts_vars >>

NoConn == [ target |-> "none", autocommit |-> FALSE, intxn |-> FALSE,
            pending |-> <<>> ]
NoExit == -1

IdleRun ==
    [ pc |-> "idle", env |-> [ v \in RequiredVarSet |-> "set" ],
      endpoint |-> "NONE", stages |-> <<>>, stmts |-> <<>>,
      outcome |-> [ s \in StageSet |-> "none" ], config_ok |-> "none",
      exit_code |-> NoExit, conn |-> NoConn, out |-> <<>>,
      publication_name |-> "None", fault |-> "none", wal_level |-> "unread",
      replication_slots |-> <<>>, wal_senders |-> <<>>,
      pub_before |-> FALSE, sub_before |-> FALSE ]

\* ------------------------------------------------------------ small helpers
RECURSIVE CountRows(_, _, _)
\* COUNT(*) ... WHERE column = name over the first i rows, keys[j] being row
\* j's value of the column.
CountRows(keys, name, i) ==
    IF i = 0 THEN 0
    ELSE CountRows(keys, name, i - 1) + (IF keys[i] = name THEN 1 ELSE 0)

\* Mutant: the WHERE clause is missing, every publication counts.
CountPublication_any_name(cat, name) == Len(cat)

\* SELECT COUNT(*) FROM pg_publication WHERE pubname = :name
CountPublication(cat, name) == CountRows(cat, name, Len(cat))

\* SELECT COUNT(*) FROM pg_subscription WHERE subname = :name
CountSubscription(cat, name) ==
    CountRows([ i \in 1..Len(cat) |-> cat[i].subname ], name, Len(cat))

\* The rows of a catalog that carry the script's publication and subscription
\* names: what the server looks at when it refuses a second CREATE of a name,
\* and what the properties below observe.  The script's own existence
\* queries are CountPublication and CountSubscription.
PublicationRows(cat) ==
    { i \in 1..Len(cat) : cat[i] = publication_name_const }
SubscriptionRows(cat) ==
    { i \in 1..Len(cat) : cat[i].subname = subscription_name_const }

Stmt(target, sql) == [ target |-> target, sql |-> sql ]
Msg(tag, arg) == [ msg |-> tag, arg |-> arg, e |-> <<>> ]

Issue(r, target, sql) == [ r EXCEPT !.stmts = Append(@, Stmt(target, sql)) ]
print(r, tag, arg) == [ r EXCEPT !.out = Append(@, Msg(tag, arg)) ]

\* Entering a stage of setup_replication: the call of the stage's function.
Enter(r, stage, pc) == [ r EXCEPT !.stages = Append(@, stage), !.pc = pc ]
Finish(r, stage, ok) ==
    [ r EXCEPT !.outcome[stage] = IF ok THEN "ok" ELSE "failed" ]

\* `with engine.connect() as conn` entered; `with` left (close: an open
\* transaction is rolled back, what it held pending is discarded).
Open(r, target, autocommit) ==
    [ r EXCEPT !.conn = [ target |-> target, autocommit |-> autocommit,
                          intxn |-> FALSE, pending |-> <<>> ] ]
Close(r) == [ r EXCEPT !.conn = NoConn ]
\* A statement on a connection that is not in autocommit mode begins a
\* transaction.
Executed(r) ==
    [ r EXCEPT !.conn.intxn = IF r.conn.autocommit THEN FALSE ELSE TRUE ]

\* sys.exit(code); a return from main() is exit code 0.  Every call is made
\* outside the `with` blocks: it finds the connection as the stage left it.
sys_exit(r, code) ==
    [ r EXCEPT !.pc = IF code = 0 THEN "Done" ELSE "Failed",
               !.exit_code = code ]
Fault(r, kind) == [ r EXCEPT !.fault = kind ]

Terminated(r) == r.pc \in {"Done", "Failed"}
Running(r) == r.pc \notin {"idle", "Done", "Failed"}

HasMsg(r, tag) == \E i \in 1..Len(r.out) : r.out[i].msg = tag
Issued(r, target, sql) ==
    { i \in 1..Len(r.stmts) : r.stmts[i] = Stmt(target, sql) }

\* What a run created, by its own success messages.
Created(r) == { t \in {"pub_created", "sub_created"} : HasMsg(r, t) }

\* history: the exit code of the run before (NoExit: there was none), what
\* that run created, and whether any earlier run ended with exit code 1.
NoHistory == [ exit_code |-> NoExit, created |-> {}, failed_before |-> FALSE ]
Archive(h, r) ==
    [ exit_code |-> r.exit_code, created |-> Created(r),
      failed_before |-> h.failed_before \/ r.exit_code = 1 ]

\* Only this process changes state, and only its own run.
Step(p, r2) ==
    /\ run' = [ run EXCEPT ![p] = r2 ]
    /\ UNCHANGED << scripts_vars, server, pg_publication, pg_subscription,
                    pg_subscription_rel, history >>

\* ------------------------------------------------- setup_replication
\* The branches setup_replication takes between its stages.  Each takes the
\* run as the finished stage left it and the value the stage returned.

\* primary_engine = connect_to_database(PRIMARY_DB_CONFIG, "PRIMARY")
setup_replication_connect_primary(r) ==
    Enter([ r EXCEPT !.endpoint = "PRIMARY" ], "primary_connect", "connect")

\* if not check_logical_replication_settings(primary_engine): ...
setup_replication_preflight(r) ==
    Enter(Finish(r, "primary_connect", TRUE), "preflight", "settings_connect")

\* Mutant: the sys.exit(1) after a failed preflight is missing.
setup_replication_publication_no_exit(r, ready) ==
    Enter(Finish(r, "preflight", ready), "publication", "pub_connect")

\* ... sys.exit(1); publication_name = create_publication(primary_engine)
setup_replication_publication(r, ready) ==
    IF ~ready
    THEN sys_exit(print(Finish(r, "preflight", FALSE), "not_configured", <<>>), 1)
    ELSE Enter(Finish(r, "preflight", TRUE), "publication", "pub_connect")

\* Mutant: the `if not publication_name: sys.exit(1)` is missing, the run
\* goes on to the replica with whatever create_publication returned.
setup_replication_connect_replica_no_exit(r, name) ==
    Enter([ Finish(r, "publication", name # "None") EXCEPT
               !.publication_name = name, !.endpoint = "REPLICA" ],
          "replica_connect", "connect")

\* if not publication_name: sys.exit(1);
\* replica_engine = connect_to_database(REPLICA_DB_CONFIG, "REPLICA")
setup_replication_connect_replica(r, name) ==
    IF name = "None"
    THEN sys_exit(Finish(r, "publication", FALSE), 1)
    ELSE Enter([ Finish(r, "publication", TRUE) EXCEPT
                    !.publication_name = name, !.endpoint = "REPLICA" ],
               "replica_connect", "connect")

\* if not create_subscription(replica_engine, publication_name): ...
setup_replication_subscription(r) ==
    Enter(Finish(r, "replica_connect", TRUE), "subscription", "sub_connect")

\* Mutant: the sys.exit(1) after a failed create_subscription is missing.
setup_replication_status_no_exit(r, created) ==
    Enter(Finish(r, "subscription", created), "status_report", "status_connect")

\* ... sys.exit(1); check_replication_status(replica_engine)
setup_replication_status(r, created) ==
    IF ~created
    THEN sys_exit(Finish(r, "subscription", FALSE), 1)
    ELSE Enter(Finish(r, "subscription", TRUE), "status_report", "status_connect")

\* check_replication_status returned (it returns None on every path, reported
\* tells whether it got through its queries); the closing messages; main returns.
setup_replication_completed(r, reported) ==
    sys_exit(print(Finish(r, "status_report", reported), "completed", <<>>), 0)

\* ------------------------------------------------------- the environment
\* Between runs the operator may change the primary's server parameters (they
\* take effect with a server restart).
server_parameters_updated ==
    /\ \A p \in Procs : ~Running(run[p])
    /\ \E s \in ServerSettings : s # server /\ server' = s
    /\ UNCHANGED << scripts_vars, pg_publication, pg_subscription, pg_subscription_rel, run,
                    history >>

\* The replica's apply worker finishes the initial copy of a table of a
\* subscription, on its own time.
apply_worker ==
    /\ \E i \in 1..Len(pg_subscription_rel) :
         /\ pg_subscription_rel[i].srsubstate = "i"
         /\ pg_subscription_rel' =
              [ pg_subscription_rel EXCEPT ![i].srsubstate = "r" ]
    /\ UNCHANGED << scripts_vars, server, pg_publication, pg_subscription, run, history >>

\* The replica's operator drops the subscriptions (DROP SUBSCRIPTION), and
\* their sync states with them.
subscription_dropped ==
    /\ pg_subscription # <<>>
    /\ pg_subscription' = <<>>
    /\ pg_subscription_rel' = <<>>
    /\ UNCHANGED << scripts_vars, server, pg_publication, run, history >>

\* ------------------------------------------------------------------ main
\* A new process runs the script: main() prints its banner.
main(p) ==
    /\ ~Running(run[p])
    /\ run' = [ run EXCEPT ![p] =
                  [ print(IdleRun, "banner", <<>>) EXCEPT
                      !.pc = "check_env_vars",
                      !.pub_before = PublicationRows(pg_publication) # {},
                      !.sub_before = SubscriptionRows(pg_subscription) # {} ] ]
    /\ history' = IF Terminated(run[p]) THEN Archive(history, run[p]) ELSE history
    /\ UNCHANGED << scripts_vars, server, pg_publication, pg_subscription, pg_subscription_rel >>

\* Mutant: only an absent variable counts as missing (`is None`), an empty
\* one passes.
missing_vars_absent_only(env) ==
    SelectSeq(required_vars, LAMBDA v : env[v] = "absent")

\* missing_vars = [var for var in required_vars if not os.environ.get(var)]
missing_vars(env) ==
    SelectSeq(required_vars, LAMBDA v : env[v] \in {"absent", "empty"})

\* check_env_vars reads os.environ: env is what it finds there.
check_env_vars(p) ==
    /\ run[p].pc = "check_env_vars"
    /\ \E env \in Environments :
         LET r == [ run[p] EXCEPT !.env = env ] IN
         IF missing_vars(env) # <<>>
         THEN Step(p, sys_exit(Fault(print([ r EXCEPT !.config_ok = "failed" ],
                                           "missing_env", missing_vars(env)),
                                     "config"), 1))
         ELSE Step(p, setup_replication_connect_primary(
                          [ r EXCEPT !.config_ok = "ok" ]))

\* --------------------------------------------------- connect_to_database
DbConfig(endpoint) ==
    IF endpoint = "PRIMARY" THEN PRIMARY_DB_CONFIG ELSE REPLICA_DB_CONFIG

\* Mutant: the connection string is assembled from the replica's own
\* configuration.
connection_string_of_replica(config) ==
    [ host |-> REPLICA_DB_CONFIG.host, dbname |-> REPLICA_DB_CONFIG.database,
      user |-> REPLICA_DB_CONFIG.user, password |-> REPLICA_DB_CONFIG.password,
      sslmode |-> REPLICA_DB_CONFIG.sslmode ]

\* connection_string: host= dbname= user= password= sslmode= of the primary
connection_string(config) ==
    [ host |-> config.host, dbname |-> config.database, user |-> config.user,
      password |-> config.password, sslmode |-> config.sslmode ]

\* The text of the statement a failed call was executing, as SQLAlchemy
\* appends it to the exception's text ([SQL: ...]): the CREATE SUBSCRIPTION
\* statement is an f-string with the subscription name, the connection
\* string and the publication name inlined; engine.connect() has no
\* statement.
StatementText(r, sql) ==
    IF sql = "CONNECT" THEN <<>>
    ELSE IF sql = "CREATE SUBSCRIPTION"
    THEN LET c == connection_string(PRIMARY_DB_CONFIG) IN
         << subscription_name_const, c.host, c.dbname, c.user, c.password,
            c.sslmode, r.publication_name >>
    ELSE << sql >>

\* str(e) of the exception the last database call of r raised: the driver's
\* text (kind) and the statement's text.
ExceptionText(r, kind) ==
    << kind >> \o StatementText(r, r.stmts[Len(r.stmts)].sql)

\* print(f"Error ...: {e}")
print_error(r, tag, arg, kind) ==
    [ r EXCEPT !.out = Append(@, [ Msg(tag, arg) EXCEPT
                                     !.e = ExceptionText(r, kind) ]) ]

\* What connect_to_database hands back to setup_replication.
connect_to_database_return(r) ==
    IF r.endpoint = "PRIMARY"
    THEN setup_replication_preflight(r)
    ELSE setup_replication_subscription(r)

\* Mutant: the handler tries the connection again instead of exiting.
connect_to_database_except_retry(r) ==
    [ print_error(r, "connect_error", << r.endpoint >>, "connect")
        EXCEPT !.pc = "connect" ]

\* except Exception: print the error, sys.exit(1)
connect_to_database_except(r) ==
    sys_exit(Fault(print_error(Finish(r, IF r.endpoint = "PRIMARY"
                                         THEN "primary_connect"
                                         ELSE "replica_connect",
                                      FALSE),
                               "connect_error", << r.endpoint >>, "connect"),
                   "connect"), 1)

\* Mutant: the engine is returned as soon as the connection opened, without
\* the SELECT 1 round trip.
connect_to_database_connect_unprobed(p) ==
    LET r == run[p]
        r1 == Issue(print(r, "connecting", << DbConfig(r.endpoint).host >>),
                    r.endpoint, "CONNECT")
    IN
    /\ r.pc = "connect"
    /\ \E ok \in BOOLEAN :
         IF ok
         THEN Step(p, connect_to_database_return(
                          print(r1, "connected", << r.endpoint >>)))
         ELSE Step(p, connect_to_database_except(r1))

\* create_engine(...); with engine.connect() as conn
connect_to_database_connect(p) ==
    LET r == run[p]
        r1 == Issue(print(r, "connecting", << DbConfig(r.endpoint).host >>),
                    r.endpoint, "CONNECT")
    IN
    /\ r.pc = "connect"
    /\ \E ok \in BOOLEAN :
         IF ok
         THEN Step(p, [ Open(r1, r.endpoint, FALSE) EXCEPT !.pc = "probe" ])
         ELSE Step(p, connect_to_database_except(r1))

\* conn.execute(text("SELECT 1")); the with block ends; return engine
connect_to_database_probe(p) ==
    LET r == run[p]
        r1 == Issue(r, r.endpoint, "SELECT 1")
    IN
    /\ r.pc = "probe"
    /\ \E ok \in BOOLEAN :
         IF ok
         THEN Step(p, connect_to_database_return(
                          print(Close(r1), "connected", << r.endpoint >>)))
         ELSE Step(p, connect_to_database_except(Close(r1)))

\* ------------------------------------ check_logical_replication_settings
\* except Exception: print the error, return False
check_logical_replication_settings_except(r, kind) ==
    setup_replication_publication(
        Fault(print_error(Close(r), "settings_error", <<>>, kind), kind), FALSE)

\* with engine.connect() as conn
check_logical_replication_settings_connect(p) ==
    LET r == run[p]
        r1 == Issue(r, "PRIMARY", "CONNECT")
    IN
    /\ r.pc = "settings_connect"
    /\ \E ok \in BOOLEAN :
         IF ok
         THEN Step(p, [ Open(r1, "PRIMARY", FALSE) EXCEPT !.pc = "show_wal_level" ])
         ELSE Step(p, check_logical_replication_settings_except(r1, "connect"))

\* Mutant: only "minimal" is rejected.
wal_level_rejected_minimal_only(result) == result = "minimal"

\* if result != "logical": three messages, return False
wal_level_rejected(result) == result # "logical"

\* result = conn.execute(text("SHOW wal_level")).scalar()
check_logical_replication_settings_wal_level(p) ==
    LET r == run[p]
        r1 == Executed(Issue(r, "PRIMARY", "SHOW wal_level"))
        result == server.wal_level
    IN
    /\ r.pc = "show_wal_level"
    /\ \E ok \in BOOLEAN :
         IF ~ok
         THEN Step(p, check_logical_replication_settings_except(r1, "statement"))
         ELSE IF wal_level_rejected(result)
         THEN Step(p, setup_replication_publication(
                          Fault(print(Close([ r1 EXCEPT !.wal_level = result ]),
                                      "wal_level_warning", << result >>),
                                "wal_level"), FALSE))
         ELSE Step(p, [ r1 EXCEPT !.wal_level = result,
                                  !.pc = "show_max_replication_slots" ])

\* Mutant: the comparison is `<=`, a server with exactly the recommended
\* number of slots is warned about.
replication_slots_warning_at_minimum(r, replication_slots) ==
    IF replication_slots <= MinReplicationSlots
    THEN print(r, "max_replication_slots_warning", << replication_slots >>)
    ELSE r

\* if int(replication_slots) < 5: warn
replication_slots_warning(r, replication_slots) ==
    IF replication_slots < MinReplicationSlots
    THEN print(r, "max_replication_slots_warning", << replication_slots >>)
    ELSE r

\* Mutant: a value below the minimum is raised on the server (ALTER SYSTEM)
\* instead of only being warned about.
check_logical_replication_settings_slots_raise(p) ==
    LET r == run[p]
        r1 == Executed(Issue(r, "PRIMARY", "SHOW max_replication_slots"))
    IN
    /\ r.pc = "show_max_replication_slots"
    /\ server' = [ server EXCEPT !.max_replication_slots =
                     IF @ < MinReplicationSlots THEN MinReplicationSlots ELSE @ ]
    /\ run' = [ run EXCEPT ![p] =
                  [ replication_slots_warning(r1, server.max_replication_slots)
                      EXCEPT !.replication_slots = << server.max_replication_slots >>,
                             !.pc = "show_max_wal_senders" ] ]
    /\ UNCHANGED << scripts_vars, pg_publication, pg_subscription, pg_subscription_rel, history >>

\* replication_slots = conn.execute(text("SHOW max_replication_slots")).scalar()
check_logical_replication_settings_slots(p) ==
    LET r == run[p]
        r1 == Executed(Issue(r, "PRIMARY", "SHOW max_replication_slots"))
    IN
    /\ r.pc = "show_max_replication_slots"
    /\ \E ok \in BOOLEAN :
         IF ~ok
         THEN Step(p, check_logical_replication_settings_except(r1, "statement"))
         ELSE Step(p, [ replication_slots_warning(r1, server.max_replication_slots)
                          EXCEPT !.replication_slots = << server.max_replication_slots >>,
                                 !.pc = "show_max_wal_senders" ])

\* if int(wal_senders) < 10: warn
wal_senders_warning(r, wal_senders) ==
    IF wal_senders < MinWalSenders
    THEN print(r, "max_wal_senders_warning", << wal_senders >>)
    ELSE r

\* wal_senders = conn.execute(text("SHOW max_wal_senders")).scalar();
\* print("Logical replication is properly configured."); return True
check_logical_replication_settings_senders(p) ==
    LET r == run[p]
        r1 == Executed(Issue(r, "PRIMARY", "SHOW max_wal_senders"))
    IN
    /\ r.pc = "show_max_wal_senders"
    /\ \E ok \in BOOLEAN :
         IF ~ok
         THEN Step(p, check_logical_replication_settings_except(r1, "statement"))
         ELSE Step(p, setup_replication_publication(
                          print(Close(wal_senders_warning(
                                          [ r1 EXCEPT !.wal_senders =
                                                        << server.max_wal_senders >> ],
                                          server.max_wal_senders)),
                                "properly_configured", <<>>), TRUE))

\* ----------------------------------------------------- create_publication
\* except Exception: print the error, return None
create_publication_except(r, kind) ==
    setup_replication_connect_replica(
        Fault(print_error(Close(r), "publication_error", <<>>, kind), kind), "None")

\* with primary_engine.connect() as conn
create_publication_connect(p) ==
    LET r == run[p]
        r1 == Issue(r, "PRIMARY", "CONNECT")
    IN
    /\ r.pc = "pub_connect"
    /\ \E ok \in BOOLEAN :
         IF ok
         THEN Step(p, [ Open(r1, "PRIMARY", FALSE) EXCEPT !.pc = "pub_check" ])
         ELSE Step(p, create_publication_except(r1, "connect"))

\* Mutant: the existence test is off by one.
publication_exists_more_than_one(result) == result > 1

\* if result > 0: the publication already exists
publication_exists(result) == result > 0

\* result = conn.execute(text("SELECT COUNT(*) FROM pg_publication
\* WHERE pubname = :name"), {"name": publication_name}).scalar()
create_publication_check(p) ==
    LET r == run[p]
        r1 == Executed(Issue(r, "PRIMARY", "SELECT COUNT(*) FROM pg_publication"))
        result == CountPublication(pg_publication, publication_name_const)
    IN
    /\ r.pc = "pub_check"
    /\ \E ok \in BOOLEAN :
         IF ~ok
         THEN Step(p, create_publication_except(r1, "statement"))
         ELSE IF publication_exists(result)
         THEN Step(p, setup_replication_connect_replica(
                          print(Close(r1), "publication_exists",
                                << publication_name_const >>),
                          publication_name_const))
         ELSE Step(p, [ r1 EXCEPT !.pc = "pub_create" ])

\* Another session holds an uncommitted CREATE of the same name: the server
\* makes this one wait for that transaction to end.
PublicationLocked(p, name) ==
    \E q \in Procs \ {p} :
        \E i \in 1..Len(run[q].conn.pending) : run[q].conn.pending[i] = name

\* conn.execute(text(f"CREATE PUBLICATION {publication_name} FOR ALL TABLES"))
create_publication_create(p) ==
    LET r == run[p]
        r1 == Executed(Issue(r, "PRIMARY", "CREATE PUBLICATION"))
    IN
    /\ r.pc = "pub_create"
    /\ ~PublicationLocked(p, publication_name_const)
    /\ IF PublicationRows(pg_publication) # {}
       THEN Step(p, create_publication_except(r1, "duplicate"))
       ELSE \E ok \in BOOLEAN :
              IF ok
              THEN Step(p, [ r1 EXCEPT
                               !.conn.pending = Append(@, publication_name_const),
                               !.pc = "pub_commit" ])
              ELSE Step(p, create_publication_except(r1, "statement"))

\* Mutant: conn.commit() is missing; leaving the `with` block rolls the
\* CREATE back, the function still prints the success and returns the name.
create_publication_commit_missing(p) ==
    /\ run[p].pc = "pub_commit"
    /\ Step(p, setup_replication_connect_replica(
                   print(Close(run[p]), "pub_created", << publication_name_const >>),
                   publication_name_const))

\* conn.commit(); print the success; return publication_name
create_publication_commit(p) ==
    LET r == run[p]
        r1 == Issue(r, "PRIMARY", "COMMIT")
    IN
    /\ r.pc = "pub_commit"
    /\ \E ok \in BOOLEAN :
         IF ok
         THEN /\ pg_publication' = pg_publication \o r.conn.pending
              /\ run' = [ run EXCEPT ![p] =
                            setup_replication_connect_replica(
                                print(Close(r1), "pub_created",
                                      << publication_name_const >>),
                                publication_name_const) ]
              /\ UNCHANGED << scripts_vars, server, pg_subscription, pg_subscription_rel,
                              history >>
         ELSE Step(p, create_publication_except(r1, "statement"))

\* ---------------------------------------------------- create_subscription
\* The tables the publication FOR ALL TABLES of the primary carries: every
\* table the primary holds, in the catalog's order.
PublishedTables(tables) ==
    SelectSeq(<< "orders", "products" >>, LAMBDA t : t \in tables)

\* A row of pg_subscription_rel; srsubstate "i" is initialize, "r" is ready.
SubscriptionRelRow(sub, rel, state) ==
    [ srsubid |-> sub, srrelid |-> rel, srsubstate |-> state ]

\* What CREATE SUBSCRIPTION puts into pg_subscription_rel: every published
\* table, its copy not begun.
InitialSyncStates(sub, tables) ==
    [ i \in 1..Len(PublishedTables(tables)) |->
        SubscriptionRelRow(sub, PublishedTables(tables)[i], "i") ]

\* The catalog row CREATE SUBSCRIPTION name CONNECTION conninfo PUBLICATION pub makes.
SubscriptionRow(name, conninfo, pub) ==
    [ subname |-> name, subenabled |-> TRUE, subconninfo |-> conninfo,
      subpublications |-> << pub >> ]

\* Mutant: the connection is opened without `with`, the handler returns
\* without closing it.
create_subscription_except_leak(r, kind) ==
    setup_replication_status(
        Fault(print_error(r, "subscription_error", <<>>, kind), kind), FALSE)

\* except Exception: print the error, return False
create_subscription_except(r, kind) ==
    setup_replication_status(
        Fault(print_error(Close(r), "subscription_error", <<>>, kind), kind), FALSE)

\* Mutant: the connection is opened without the AUTOCOMMIT execution option.
create_subscription_connect_plain(p) ==
    LET r == run[p]
        r1 == Issue(r, "REPLICA", "CONNECT")
    IN
    /\ r.pc = "sub_connect"
    /\ \E ok \in BOOLEAN :
         IF ok
         THEN Step(p, [ Open(r1, "REPLICA", FALSE) EXCEPT !.pc = "sub_check" ])
         ELSE Step(p, create_subscription_except(r1, "connect"))

\* with replica_engine.connect().execution_options(isolation_level="AUTOCOMMIT")
create_subscription_connect(p) ==
    LET r == run[p]
        r1 == Issue(r, "REPLICA", "CONNECT")
    IN
    /\ r.pc = "sub_connect"
    /\ \E ok \in BOOLEAN :
         IF ok
         THEN Step(p, [ Open(r1, "REPLICA", TRUE) EXCEPT !.pc = "sub_check" ])
         ELSE Step(p, create_subscription_except(r1, "connect"))

\* Mutant: the existence test is inverted.
subscription_exists_inverted(result) == result = 0

\* if result > 0: the subscription already exists
subscription_exists(result) == result > 0

\* result = conn.execute(text("SELECT COUNT(*) FROM pg_subscription
\* WHERE subname = :name"), {"name": subscription_name}).scalar()
create_subscription_check(p) ==
    LET r == run[p]
        r1 == Executed(Issue(r, "REPLICA", "SELECT COUNT(*) FROM pg_subscription"))
        result == CountSubscription(pg_subscription, subscription_name_const)
    IN
    /\ r.pc = "sub_check"
    /\ \E ok \in BOOLEAN :
         IF ~ok
         THEN Step(p, create_subscription_except(r1, "statement"))
         ELSE IF subscription_exists(result)
         THEN Step(p, setup_replication_status(
                          print(Close(r1), "subscription_exists",
                                << subscription_name_const >>), TRUE))
         ELSE Step(p, [ r1 EXCEPT !.pc = "sub_create" ])

\* Mutant: a failed CREATE SUBSCRIPTION undoes the publication stage.
create_subscription_create_with_rollback(p) ==
    LET r == run[p]
        r1 == Executed(Issue(r, "REPLICA", "CREATE SUBSCRIPTION"))
    IN
    /\ r.pc = "sub_create"
    /\ \E ok \in BOOLEAN :
         IF ok /\ SubscriptionRows(pg_subscription) = {}
         THEN /\ pg_subscription' =
                   Append(pg_subscription,
                          SubscriptionRow(subscription_name_const,
                                          connection_string(PRIMARY_DB_CONFIG),
                                          r.publication_name))
              /\ pg_subscription_rel' =
                   pg_subscription_rel
                     \o InitialSyncStates(subscription_name_const,
                                          database["PRIMARY"].tables)
              /\ run' = [ run EXCEPT ![p] =
                            setup_replication_status(
                                print(Close(r1), "sub_created",
                                      << subscription_name_const >>), TRUE) ]
              /\ UNCHANGED << scripts_vars, server, pg_publication, history >>
         ELSE /\ pg_publication' =
                   SelectSeq(pg_publication, LAMBDA n : n # r.publication_name)
              /\ run' = [ run EXCEPT ![p] =
                            create_subscription_except(r1, "statement") ]
              /\ UNCHANGED << scripts_vars, server, pg_subscription, pg_subscription_rel,
                              history >>

\* conn.execute(text(f"CREATE SUBSCRIPTION {subscription_name} CONNECTION
\* '{connection_string}' PUBLICATION {publication_name}")); return True.  The
\* server refuses the statement inside a transaction block, refuses a name
\* the catalog already holds, and refuses a published table the replica does
\* not hold.
create_subscription_create(p) ==
    LET r == run[p]
        r1 == Executed(Issue(r, "REPLICA", "CREATE SUBSCRIPTION"))
    IN
    /\ r.pc = "sub_create"
    /\ IF r.conn.intxn
       THEN Step(p, create_subscription_except(r1, "in_transaction"))
       ELSE IF SubscriptionRows(pg_subscription) # {}
       THEN Step(p, create_subscription_except(r1, "duplicate"))
       ELSE IF ~(database["PRIMARY"].tables \subseteq database["REPLICA"].tables)
       THEN Step(p, create_subscription_except(r1, "missing_relation"))
       ELSE \E ok \in BOOLEAN :
              IF ok
              THEN /\ pg_subscription' =
                        Append(pg_subscription,
                               SubscriptionRow(subscription_name_const,
                                               connection_string(PRIMARY_DB_CONFIG),
                                               r.publication_name))
                   /\ pg_subscription_rel' =
                        pg_subscription_rel
                          \o InitialSyncStates(subscription_name_const,
                                               database["PRIMARY"].tables)
                   /\ run' = [ run EXCEPT ![p] =
                                 setup_replication_status(
                                     print(Close(r1), "sub_created",
                                           << subscription_name_const >>), TRUE) ]
                   /\ UNCHANGED << scripts_vars, server, pg_publication, history >>
              ELSE Step(p, create_subscription_except(r1, "statement"))

\* ----------------------------------------------- check_replication_status
\* Mutant: the handler ends the process instead of returning.
check_replication_status_except_fatal(r, kind) ==
    sys_exit(Finish(print_error(Close(r), "status_error", <<>>, kind),
                    "status_report", FALSE), 1)

\* except Exception: print the error (and return None)
check_replication_status_except(r, kind) ==
    setup_replication_completed(
        print_error(Close(r), "status_error", <<>>, kind), FALSE)

\* with replica_engine.connect() as conn
check_replication_status_connect(p) ==
    LET r == run[p]
        r1 == Issue(r, "REPLICA", "CONNECT")
    IN
    /\ r.pc = "status_connect"
    /\ \E ok \in BOOLEAN :
         IF ok
         THEN Step(p, [ Open(r1, "REPLICA", FALSE) EXCEPT !.pc = "status_subscriptions" ])
         ELSE Step(p, check_replication_status_except(r1, "connect"))

\* SELECT subname, subenabled, subconninfo FROM pg_subscription
SubscriptionListing(cat) ==
    [ i \in 1..Len(cat) |->
        [ subname |-> cat[i].subname, subenabled |-> cat[i].subenabled,
          subconninfo |-> cat[i].subconninfo ] ]

\* Mutant: the test is `if result is None`, which a fetchall() result never
\* is.
no_subscriptions_is_none(result) == FALSE

\* if not result: "No subscriptions found." and return
no_subscriptions(result) == result = <<>>

\* result = conn.execute(...).fetchall(); if not result: "No subscriptions
\* found.", return; else print each row
check_replication_status_subscriptions(p) ==
    LET r == run[p]
        r1 == Executed(Issue(r, "REPLICA", "SELECT FROM pg_subscription"))
        result == SubscriptionListing(pg_subscription)
    IN
    /\ r.pc = "status_subscriptions"
    /\ \E ok \in BOOLEAN :
         IF ~ok
         THEN Step(p, check_replication_status_except(r1, "statement"))
         ELSE IF no_subscriptions(result)
         THEN Step(p, setup_replication_completed(
                          print(Close(r1), "no_subscriptions", <<>>), TRUE))
         ELSE Step(p, [ print(r1, "subscription_status", result)
                          EXCEPT !.pc = "status_relations" ])

\* The columns of the catalog pg_subscription_rel, and the columns of r
\* (pg_subscription_rel) the statistics query selects and joins on.
SubscriptionRelColumns == {"srsubid", "srrelid", "srsubstate", "srsublsn"}
StatsColumns == {"srsubstate", "srrelid", "srsublsn", "srsubskiplsn", "srsubid"}

\* The server runs a query only if the columns it names exist.
StatsQueryValid == StatsColumns \subseteq SubscriptionRelColumns

\* SELECT s.subname, r.srsubstate, r.srrelid::regclass ... FROM
\* pg_subscription_rel r JOIN pg_subscription s ON s.oid = r.srsubid LIMIT 10
ReplicationDetails(rel, cat) ==
    LET joined == SelectSeq(rel, LAMBDA row :
                      \E i \in 1..Len(cat) : cat[i].subname = row.srsubid)
        n == IF Len(joined) < StatsLimit THEN Len(joined) ELSE StatsLimit
    IN [ i \in 1..n |->
           [ subname |-> joined[i].srsubid, srsubstate |-> joined[i].srsubstate,
             relation_name |-> joined[i].srrelid ] ]

\* stats = conn.execute(... pg_subscription_rel JOIN pg_subscription LIMIT 10
\* ...).fetchall(); if stats: print them.  The query names r.srsubskiplsn,
\* which is no column of pg_subscription_rel (subskiplsn is one of
\* pg_subscription): the server answers it with an error.
check_replication_status_relations(p) ==
    LET r == run[p]
        r1 == Executed(Issue(r, "REPLICA", "SELECT FROM pg_subscription_rel"))
        stats == ReplicationDetails(pg_subscription_rel, pg_subscription)
    IN
    /\ r.pc = "status_relations"
    /\ \E ok \in BOOLEAN :
         IF ~ok \/ ~StatsQueryValid
         THEN Step(p, check_replication_status_except(r1, "statement"))
         ELSE Step(p, setup_replication_completed(
                          Close(IF stats # <<>>
                                THEN print(r1, "replication_details", stats)
                                ELSE r1), TRUE))

\* ======================================================= database_setup.py
\* setup_primary_database and setup_replica_database: connect, create_tables,
\* load_sample_data, and on the primary query_data.  Every call on the
\* database, the prompt and the reading of the sample file is one step.

Endpoints == {"PRIMARY", "REPLICA"}
\* The tables of Base.metadata.
TableNames == {"products", "orders"}

\* What the operator may type: strings as sequences of characters.
\* Whitespace as str.strip() removes it: the blank and the tab stand for
\* the characters of str.isspace().
Whitespace == {" ", "\t"}
AnswerChars == {"y", "Y", "n"} \cup Whitespace
Answers == UNION { [ 1..n -> AnswerChars ] : n \in 0..MaxAnswer }

\* The ids of the products a sample data file may list, and the files.
ProductIds == {1, 2}
SampleFiles == UNION { [ 1..n -> ProductIds ] : n \in 0..MaxSample }

RECURSIVE lstrip(_)
lstrip(s) == IF s # <<>> /\ Head(s) \in Whitespace THEN lstrip(Tail(s)) ELSE s
RECURSIVE rstrip(_)
rstrip(s) ==
    IF s # <<>> /\ s[Len(s)] \in Whitespace
    THEN rstrip(SubSeq(s, 1, Len(s) - 1)) ELSE s
\* str.strip() and str.lower()
strip(s) == rstrip(lstrip(s))
lower(s) == [ i \in 1..Len(s) |-> IF s[i] = "Y" THEN "y" ELSE s[i] ]

NoDatabase == [ tables |-> {}, products |-> <<>> ]
IdleSetup ==
    [ pc |-> "idle", endpoint |-> "NONE", is_primary |-> FALSE,
      response |-> <<>>, asked |-> FALSE, dropped |-> FALSE, created |-> FALSE,
      before |-> NoDatabase, load_before |-> <<>>, loading |-> FALSE,
      products_data |-> <<>>, inserted |-> FALSE, categories |-> 0,
      out |-> <<>>, exit_code |-> NoExit ]

\* One step of database_setup.py: it changes its own state and, where given,
\* the database of the endpoint it is setting up.
SetupStep(s2, db2) ==
    /\ setup' = s2
    /\ database' = db2
    /\ UNCHANGED << replication_vars, streamlit_vars >>

setup_print(s, tag) == [ s EXCEPT !.out = Append(@, tag) ]
setup_exit(s, code) ==
    [ s EXCEPT !.pc = IF code = 0 THEN "Done" ELSE "Failed", !.exit_code = code ]

\* create_tables returned: load_sample_data(engine, is_primary) is called.
create_tables_return(s) == [ s EXCEPT !.pc = "load_count" ]

\* load_sample_data returned: setup_primary_database goes on to query_data,
\* setup_replica_database is done.
load_sample_data_return(s) ==
    IF s.is_primary THEN [ s EXCEPT !.pc = "query_data" ] ELSE setup_exit(s, 0)

\* setup_primary_database() / setup_replica_database() begins: it prints
\* "Setting up ..." and calls connect_to_database
setup_database(endpoint) ==
    /\ setup.pc \in {"idle", "Done", "Failed"}
    /\ SetupStep([ setup_print(IdleSetup, "setting_up") EXCEPT
                     !.endpoint = endpoint,
                     !.is_primary = (endpoint = "PRIMARY"),
                     !.before = database[endpoint],
                     !.pc = "connect" ],
                 database)

\* except Exception in connect_to_database: print the error, sys.exit(1)
setup_connect_except(s) == setup_exit(setup_print(s, "connect_error"), 1)

\* connect_to_database: "Connecting to ...", create_engine(...), with
\* engine.connect() as conn
setup_connect(endpoint) ==
    LET s == setup_print(setup, "connecting") IN
    /\ setup.pc = "connect"
    /\ setup.endpoint = endpoint
    /\ \E ok \in BOOLEAN :
         IF ok
         THEN SetupStep([ s EXCEPT !.pc = "probe" ], database)
         ELSE SetupStep(setup_connect_except(s), database)

\* conn.execute(text("SELECT 1")); "Connected successfully"; return engine;
\* create_tables(engine) is called
setup_probe(endpoint) ==
    LET s == setup IN
    /\ s.pc = "probe"
    /\ s.endpoint = endpoint
    /\ \E ok \in BOOLEAN :
         IF ok
         THEN SetupStep([ setup_print(s, "connected") EXCEPT
                            !.pc = "check_tables_exist" ],
                        database)
         ELSE SetupStep(setup_connect_except(s), database)

\* return products_exist or orders_exist
tables_exist(tables) == "products" \in tables \/ "orders" \in tables

\* tables_exist = check_tables_exist(engine): inspector.get_table_names();
\* on an exception check_tables_exist prints it and calls sys.exit(1)
create_tables_check(endpoint) ==
    LET s == setup IN
    /\ s.pc = "check_tables_exist"
    /\ s.endpoint = endpoint
    /\ \E ok \in BOOLEAN :
         IF ~ok
         THEN SetupStep(setup_exit(setup_print(s, "check_error"), 1), database)
         ELSE IF tables_exist(database[endpoint].tables)
         THEN SetupStep([ setup_print(s, "tables_exist") EXCEPT !.pc = "prompt" ],
                        database)
         ELSE SetupStep([ s EXCEPT !.pc = "create_all" ], database)

\* Mutant: any answer that begins with y counts as consent.
confirmed_startswith(response) ==
    LET r == lower(strip(response)) IN r # <<>> /\ Head(r) = "y"

\* response = input(...).strip().lower(); if response == "y"
confirmed(response) == lower(strip(response)) = << "y" >>

\* except Exception in create_tables: print the error, sys.exit(1)
create_tables_except(s) == setup_exit(setup_print(s, "create_error"), 1)

\* response = input("Do you want to delete and re-create the tables? (y/n): ")
\* .strip().lower(); if response == "y": drop_tables(engine) else: print,
\* return.  input() raises EOFError when there is nothing to read.
create_tables_prompt(endpoint) ==
    LET s == [ setup EXCEPT !.asked = TRUE ] IN
    /\ setup.pc = "prompt"
    /\ setup.endpoint = endpoint
    /\ \/ SetupStep(create_tables_except(s), database)
       \/ \E answer \in Answers :
            LET s1 == [ s EXCEPT !.response = answer ] IN
            IF confirmed(answer)
            THEN SetupStep([ s1 EXCEPT !.pc = "drop_tables" ], database)
            ELSE SetupStep(create_tables_return(setup_print(s1, "using_existing")),
                           database)

\* Base.metadata.drop_all(engine): the tables of the metadata that exist are
\* dropped, their rows with them; on an exception print it and sys.exit(1)
drop_tables(endpoint) ==
    LET s == setup IN
    /\ s.pc = "drop_tables"
    /\ s.endpoint = endpoint
    /\ \E ok \in BOOLEAN :
         IF ok
         THEN SetupStep([ setup_print(s, "dropped") EXCEPT !.dropped = TRUE,
                                                           !.pc = "create_all" ],
                        [ database EXCEPT ![endpoint] =
                            [ tables |-> @.tables \ TableNames, products |-> <<>> ] ])
         ELSE SetupStep(setup_exit(setup_print(s, "drop_error"), 1), database)

\* Base.metadata.create_all(engine): the tables of the metadata that are
\* missing are created; print("Tables created successfully!")
create_tables_create_all(endpoint) ==
    LET s == setup IN
    /\ s.pc = "create_all"
    /\ s.endpoint = endpoint
    /\ \E ok \in BOOLEAN :
         IF ok
         THEN SetupStep(create_tables_return(
                            [ setup_print(s, "created") EXCEPT !.created = TRUE ]),
                        [ database EXCEPT ![endpoint].tables = @ \cup TableNames ])
         ELSE SetupStep(create_tables_except(s), database)

\* except FileNotFoundError / except Exception in load_sample_data: print
\* the error, sys.exit(1)
load_sample_data_except(s) == setup_exit(setup_print(s, "load_error"), 1)

\* Mutant: the `if not is_primary` return is missing.
load_sample_data_skip_anywhere(product_count, is_primary) == product_count > 0

\* if product_count > 0: skip; if not is_primary: skip
load_sample_data_skip(product_count, is_primary) ==
    product_count > 0 \/ ~is_primary

\* product_count = session.query(Product).count(), which raises when there
\* is no products table; the two early returns
load_sample_data_count(endpoint) ==
    LET s == [ setup EXCEPT !.loading = TRUE,
                            !.load_before = database[endpoint].products ]
        product_count == Len(database[endpoint].products)
    IN
    /\ setup.pc = "load_count"
    /\ setup.endpoint = endpoint
    /\ \E ok \in BOOLEAN :
         IF ~ok \/ "products" \notin database[endpoint].tables
         THEN SetupStep(load_sample_data_except(s), database)
         ELSE IF load_sample_data_skip(product_count, s.is_primary)
         THEN SetupStep(load_sample_data_return(setup_print(s, "skipped")), database)
         ELSE SetupStep([ s EXCEPT !.pc = "load_read" ], database)

\* with open(data_path) as file: products_data = json.load(file); one
\* session.add(Product(id=...)) per entry
load_sample_data_read(endpoint) ==
    LET s == setup IN
    /\ s.pc = "load_read"
    /\ s.endpoint = endpoint
    /\ \/ SetupStep(load_sample_data_except(s), database)
       \/ \E data \in SampleFiles :
            SetupStep([ s EXCEPT !.products_data = data, !.pc = "load_commit" ],
                      database)

\* The server accepts the rows if no id occurs twice among them and the
\* rows the table holds (products.id is the primary key).
PrimaryKeyHolds(rows) == \A i, j \in 1..Len(rows) : rows[i] = rows[j] => i = j

\* session.commit(); print(f"Imported {len(products_data)} products ...")
load_sample_data_commit(endpoint) ==
    LET s == setup
        rows == database[endpoint].products \o s.products_data
    IN
    /\ s.pc = "load_commit"
    /\ s.endpoint = endpoint
    /\ \E ok \in BOOLEAN :
         IF ok /\ PrimaryKeyHolds(rows)
         THEN SetupStep(load_sample_data_return(
                            [ setup_print(s, "imported") EXCEPT !.inserted = TRUE ]),
                        [ database EXCEPT ![endpoint].products = rows ])
         ELSE SetupStep(load_sample_data_except(s), database)

\* The positions of query_data, one for each query it sends.
QueryPcs == {"query_data", "query_products", "query_categories",
             "query_category_count", "query_category_avg", "query_in_stock"}

\* outer except Exception of query_data: print the error, sys.exit(1)
query_data_except(s) == setup_exit(setup_print(s, "query_error"), 1)

\* inner except Exception of query_data: print the warning; session.close();
\* query_data returns and setup_primary_database prints its completion
query_data_warning(s) == setup_exit(setup_print(s, "query_warning"), 0)

\* product_count = session.query(Product).count(); if product_count == 0:
\* "No products found to query.", return
query_data(endpoint) ==
    LET s == setup
        product_count == Len(database[endpoint].products)
    IN
    /\ s.pc = "query_data"
    /\ s.endpoint = endpoint
    /\ \E ok \in BOOLEAN :
         IF ~ok
         THEN SetupStep(query_data_except(s), database)
         ELSE IF product_count = 0
         THEN SetupStep(setup_exit(setup_print(s, "no_products"), 0), database)
         ELSE SetupStep([ s EXCEPT !.pc = "query_products" ], database)

\* products = session.query(Product).order_by(Product.id).all()
query_data_products(endpoint) ==
    LET s == setup IN
    /\ s.pc = "query_products"
    /\ s.endpoint = endpoint
    /\ \E ok \in BOOLEAN :
         IF ok
         THEN SetupStep([ s EXCEPT !.pc = "query_categories" ], database)
         ELSE SetupStep(query_data_except(s), database)

\* query_data goes on after a category's two queries: the next category, or
\* the in-stock count
query_data_next_category(s, remaining) ==
    [ s EXCEPT !.categories = remaining,
               !.pc = IF remaining > 0 THEN "query_category_count"
                      ELSE "query_in_stock" ]

\* categories = session.query(Product.category).distinct().all(): as many
\* categories as the products have, at least one and at most one each
query_data_categories(endpoint) ==
    LET s == setup IN
    /\ s.pc = "query_categories"
    /\ s.endpoint = endpoint
    /\ \E ok \in BOOLEAN :
         IF ok
         THEN \E n \in 0..Len(database[endpoint].products) :
                /\ n = 0 <=> database[endpoint].products = <<>>
                /\ SetupStep(query_data_next_category(s, n), database)
         ELSE SetupStep(query_data_warning(s), database)

\* count = session.query(func.count(Product.id)).filter(...).scalar()
query_data_category_count(endpoint) ==
    LET s == setup IN
    /\ s.pc = "query_category_count"
    /\ s.endpoint = endpoint
    /\ \E ok \in BOOLEAN :
         IF ok
         THEN SetupStep([ s EXCEPT !.pc = "query_category_avg" ], database)
         ELSE SetupStep(query_data_warning(s), database)

\* avg_price = session.query(func.avg(Product.price)).filter(...).scalar()
query_data_category_avg(endpoint) ==
    LET s == setup IN
    /\ s.pc = "query_category_avg"
    /\ s.endpoint = endpoint
    /\ \E ok \in BOOLEAN :
         IF ok
         THEN SetupStep(query_data_next_category(s, s.categories - 1), database)
         ELSE SetupStep(query_data_warning(s), database)

\* in_stock_count = session.query(Product).filter(...).count();
\* session.close(); setup_primary_database prints its completion
query_data_in_stock(endpoint) ==
    LET s == setup IN
    /\ s.pc = "query_in_stock"
    /\ s.endpoint = endpoint
    /\ \E ok \in BOOLEAN :
         IF ok
         THEN SetupStep(setup_exit(s, 0), database)
         ELSE SetupStep(query_data_warning(s), database)

\* ======================================================== streamlit_app.py
\* One browser session's runs of main() against the app's database, while
\* other sessions change the products and app.py drops, creates and fills
\* the tables.  Every query, the commit and the refresh of create_order is
\* one step; a call answered from the cache is no step of its own.

\* A product as get_products and get_product_by_id hand it on.
ProductDict(id, in_stock) == [ id |-> id, in_stock |-> in_stock ]

\* created_at = Column(DateTime, server_default=func.now()): a row carries
\* the time at which the transaction that inserted it began, and the rows of
\* one transaction carry the same time.  Only the order of the times is
\* read, so they are kept as ranks 1, 2, ... among the times in use: those
\* of the rows and those of the load transactions that are open.
TimesInUse(created_at, loads) ==
    { created_at[id] : id \in DOMAIN created_at } \cup loads
Rank(t, times) == Cardinality({ u \in times : u <= t })
RankedCreatedAt(created_at, loads) ==
    [ id \in DOMAIN created_at |->
        Rank(created_at[id], TimesInUse(created_at, loads)) ]
RankedLoads(created_at, loads) ==
    { Rank(t, TimesInUse(created_at, loads)) : t \in loads }

\* ORDER BY created_at: the ids of the rows in an order of non-decreasing
\* created_at; rows of the same time come in either order.
ProductOrders(created_at) ==
    { ids \in [ 1..Cardinality(DOMAIN created_at) -> DOMAIN created_at ] :
        \A i, j \in DOMAIN ids :
            i < j => /\ ids[i] # ids[j]
                     /\ created_at[ids[i]] <= created_at[ids[j]] }

\* session.query(Product).order_by(Product.created_at).all(), as
\* dictionaries: the rows the products table holds, in the order ids
ProductsList(in_stock, ids) ==
    [ i \in 1..Len(ids) |-> ProductDict(ids[i], in_stock[ids[i]]) ]

\* session.query(Order..., Product...).join(Product)
\* .order_by(desc(Order.order_date)).all(), as dictionaries: the newest
\* order first
OrdersList(orders) ==
    [ i \in 1..Len(orders) |->
        LET order == orders[Len(orders) + 1 - i] IN
        [ product_id |-> order.product_id, quantity |-> order.quantity ] ]

\* The app's database with no table in it.
NoTables ==
    [ tables |-> FALSE, in_stock |-> <<>>, created_at |-> <<>>, orders |-> <<>> ]

\* What a function under st.cache_data hands back: its value and the
\* elements it put on the page (the st.error of its except branch), which
\* Streamlit stores with the value and replays on every hit.
Cached(value, elements) == [ value |-> value, elements |-> elements ]

\* A cache of st.cache_data(ttl=5) holds no entry (<<>>) or one (<< c >>).
NoPage ==
    [ pc |-> "idle", selected |-> 0, product |-> <<>>, quantity |-> 0,
      session |-> "none", returned |-> "none", orders_before |-> <<>>,
      committed |-> 0, out |-> <<>> ]
IdleShop ==
    [ env_file |-> TRUE, env_set |-> TRUE, create_engine_ok |-> TRUE,
      products_cache |-> <<>>,
      product_cache |-> [ id \in ProductIds |-> <<>> ],
      orders_cache |-> <<>>,
      page |-> NoPage ]

\* One step of the app's own: the database's products stay as they are.
ShopStep(shop2, orders2) ==
    /\ shop' = shop2
    /\ shop_db' = [ shop_db EXCEPT !.orders = orders2 ]
    /\ UNCHANGED << replication_vars, database_setup_vars, app >>

st_print(page, tag) == [ page EXCEPT !.out = Append(@, tag) ]
\* The elements of a cached function appear on the page.
st_replay(page, elements) == [ page EXCEPT !.out = @ \o elements ]
\* The script run of the page ends.
page_done(page) == [ page EXCEPT !.pc = "done" ]
\* order_creation_view returns: main() goes on to orders_list_view()
order_creation_view_return(page) == [ page EXCEPT !.pc = "orders_list_view" ]

\* The processes that run app.py against the app's database, and the sample
\* files they may read: one product or more, each in stock or not.  The file
\* is no part of the state: what a process read from it is drawn where the
\* products reach the database.  A process inside load_sample_data has a
\* transaction open, begun by its count query; at most MaxLoads processes
\* are inside it at a time.
AppSampleFiles ==
    UNION { [ ids -> BOOLEAN ] : ids \in SUBSET ProductIds \ { {} } }
\* No process of app.py is inside load_sample_data.
IdleApp == {}

\* Another session of the app's database changes the in_stock flag of a
\* product.
stock_updated ==
    /\ \E id \in DOMAIN shop_db.in_stock :
         shop_db' = [ shop_db EXCEPT !.in_stock[id] = ~@ ]
    /\ UNCHANGED << replication_vars, database_setup_vars, shop, app >>

\* app.py, create_tables with the answer "y": drop_tables(engine),
\* Base.metadata.drop_all drops orders and products.  DROP TABLE waits
\* while an open load transaction holds its lock on products.
app_drop_tables ==
    /\ shop_db.tables
    /\ app = IdleApp
    /\ shop_db' = NoTables
    /\ UNCHANGED << replication_vars, database_setup_vars, shop, app >>

\* app.py, create_tables: Base.metadata.create_all(engine), after the drop
\* or when no table was found.
app_create_tables ==
    /\ ~shop_db.tables
    /\ shop_db' = [ NoTables EXCEPT !.tables = TRUE ]
    /\ UNCHANGED << replication_vars, database_setup_vars, shop, app >>

\* app.py, load_sample_data: product_count = session.query(Product).count();
\* with product_count > 0, or when the query raises, the call ends; else the
\* products of the sample file are added to the session, in the transaction
\* that the query began.
app_load_sample_data_count ==
    /\ Cardinality(app) < MaxLoads
    /\ shop_db.tables
    /\ shop_db.in_stock = <<>>
    /\ app' = app \cup { Cardinality(TimesInUse(shop_db.created_at, app)) + 1 }
    /\ UNCHANGED << replication_vars, database_setup_vars, shop_db, shop >>

\* app.py, load_sample_data: session.commit() inserts the products of the
\* file with the transaction's time as created_at, or raises and nothing is
\* inserted; the server refuses them when the table holds one of their ids
\* (the primary key).  Either way the transaction and the call end.
app_load_sample_data_commit(t) ==
    LET loads == app \ { t } IN
    /\ t \in app
    /\ \/ /\ shop_db' = [ shop_db EXCEPT !.created_at =
                            RankedCreatedAt(shop_db.created_at, loads) ]
          /\ app' = RankedLoads(shop_db.created_at, loads)
       \/ \E products_data \in AppSampleFiles :
            LET ids == DOMAIN products_data \cup DOMAIN shop_db.in_stock
                created_at == [ id \in ids |->
                                  IF id \in DOMAIN products_data
                                  THEN t ELSE shop_db.created_at[id] ]
            IN
            /\ DOMAIN products_data \cap DOMAIN shop_db.in_stock = {}
            /\ shop_db' = [ shop_db EXCEPT
                  !.in_stock =
                     [ id \in ids |->
                         IF id \in DOMAIN products_data
                         THEN products_data[id] ELSE shop_db.in_stock[id] ],
                  !.created_at = RankedCreatedAt(created_at, loads) ]
            /\ app' = RankedLoads(created_at, loads)
    /\ UNCHANGED << replication_vars, database_setup_vars, shop >>

\* Five seconds have passed since a value was cached: st.cache_data(ttl=5)
\* forgets it.
cache_expires ==
    /\ \/ /\ shop.products_cache # <<>>
          /\ shop' = [ shop EXCEPT !.products_cache = <<>> ]
       \/ /\ shop.orders_cache # <<>>
          /\ shop' = [ shop EXCEPT !.orders_cache = <<>> ]
       \/ \E id \in ProductIds :
            /\ shop.product_cache[id] # <<>>
            /\ shop' = [ shop EXCEPT !.product_cache[id] = <<>> ]
    /\ UNCHANGED << replication_vars, database_setup_vars, shop_db, app >>

\* get_products(): the cached entry if there is one; else the query, whose
\* rows are returned, or [] with st.error when it raises (it raises when the
\* table is not there)
get_products(ok, ids) ==
    IF shop.products_cache # <<>> THEN shop.products_cache[1]
    ELSE IF ok /\ shop_db.tables
    THEN Cached(ProductsList(shop_db.in_stock, ids), <<>>)
    ELSE Cached(<<>>, << "fetch_error" >>)

\* get_product_by_id(product_id): the cached entry if there is one; else the
\* query, the row as a dictionary, None (<<>>) when there is no such row, or
\* None with st.error when the query raises
get_product_by_id(product_id, ok) ==
    IF shop.product_cache[product_id] # <<>> THEN shop.product_cache[product_id][1]
    ELSE IF ok /\ shop_db.tables
    THEN Cached(IF product_id \in DOMAIN shop_db.in_stock
                THEN << ProductDict(product_id, shop_db.in_stock[product_id]) >>
                ELSE <<>>,
                <<>>)
    ELSE Cached(<<>>, << "product_error" >>)

\* get_orders(): the cached entry if there is one; else the query, or []
\* with st.error when it raises
get_orders(ok) ==
    IF shop.orders_cache # <<>> THEN shop.orders_cache[1]
    ELSE IF ok /\ shop_db.tables
    THEN Cached(OrdersList(shop_db.orders), <<>>)
    ELSE Cached(<<>>, << "orders_error" >>)

\* Streamlit runs the script (first load, or any interaction).  Without a
\* .env file next to it the script stops with an error before main();
\* main() calls check_env_vars(), which stops the run with two errors when a
\* variable is missing.
main_page ==
    /\ shop.page.pc \in {"idle", "done"}
    /\ ShopStep([ shop EXCEPT !.page =
                    IF ~shop.env_file
                    THEN page_done(st_print(NoPage, "env_file_not_found"))
                    ELSE IF ~shop.env_set
                    THEN page_done(st_print(st_print(NoPage, "missing_vars"),
                                            "create_env_file"))
                    ELSE [ NoPage EXCEPT !.pc = "product_list_view" ] ],
                shop_db.orders)

\* init_connection(), under st.cache_resource: the engine that
\* create_engine(...) makes of DB_CONFIG (TRUE), handed out again on later
\* calls; when create_engine raises (a malformed host), st.error and
\* st.stop() (FALSE).  The first call is the one get_products() makes in
\* product_list_view, before its try.
init_connection == shop.create_engine_ok

\* product_list_view(): products = get_products(); if not products: st.info
product_list_view ==
    LET page == shop.page IN
    /\ page.pc = "product_list_view"
    /\ \E ok \in BOOLEAN, ids \in ProductOrders(shop_db.created_at) :
         LET c == get_products(ok, ids)
             page1 == st_replay(page, c.elements)
         IN IF shop.products_cache = <<>> /\ ~init_connection
            THEN ShopStep([ shop EXCEPT !.page =
                              page_done(st_print(page, "connect_error")) ],
                          shop_db.orders)
            ELSE
            ShopStep([ shop EXCEPT
                         !.products_cache = << c >>,
                         !.page = [ IF c.value = <<>>
                                    THEN st_print(page1, "no_products_found")
                                    ELSE page1
                                      EXCEPT !.pc = "order_creation_view" ] ],
                     shop_db.orders)

\* product_options: the ids of the listed products with in_stock true
product_options(products) ==
    { products[i].id : i \in { j \in 1..Len(products) : products[j].in_stock } }

\* order_creation_view(): products = get_products(); `if not products`,
\* `if not product_options`, and the selectbox
order_creation_view ==
    LET page == shop.page IN
    /\ page.pc = "order_creation_view"
    /\ \E ok \in BOOLEAN, ids \in ProductOrders(shop_db.created_at) :
         LET c == get_products(ok, ids)
             products == c.value
             page1 == st_replay(page, c.elements)
             shop1 == [ shop EXCEPT !.products_cache = << c >> ]
         IN
         IF products = <<>>
         THEN ShopStep([ shop1 EXCEPT !.page =
                           order_creation_view_return(
                               st_print(page1, "no_products")) ],
                       shop_db.orders)
         ELSE IF product_options(products) = {}
         THEN ShopStep([ shop1 EXCEPT !.page =
                           order_creation_view_return(
                               st_print(page1, "none_in_stock")) ],
                       shop_db.orders)
         ELSE \E selected \in product_options(products) :
                ShopStep([ shop1 EXCEPT !.page =
                             [ page1 EXCEPT !.selected = selected,
                                            !.pc = "get_product_by_id" ] ],
                         shop_db.orders)

\* product = get_product_by_id(selected_product_id)
order_creation_view_product ==
    LET page == shop.page
        id == page.selected
    IN
    /\ page.pc = "get_product_by_id"
    /\ \E ok \in BOOLEAN :
         LET c == get_product_by_id(id, ok) IN
         ShopStep([ shop EXCEPT
                      !.product_cache[id] = << c >>,
                      !.page = [ st_replay(page, c.elements) EXCEPT
                                   !.product = c.value,
                                   !.pc = "button" ] ],
                  shop_db.orders)

\* if st.button("Place Order"): if product and not product["in_stock"]:
\* error; elif product: order = create_order(selected_product_id, quantity)
\* with the quantity of st.number_input (1..100, here 1..MaxQuantity), whose
\* session is opened and the new Order added to it.  The orders table
\* takes MaxOrders rows.
order_creation_view_button ==
    LET page == shop.page IN
    /\ page.pc = "button"
    /\ \E clicked \in BOOLEAN :
         IF ~clicked \/ page.product = <<>>
         THEN ShopStep([ shop EXCEPT !.page = order_creation_view_return(page) ],
                       shop_db.orders)
         ELSE IF ~page.product[1].in_stock
         THEN ShopStep([ shop EXCEPT !.page =
                           order_creation_view_return(
                               st_print(page, "out_of_stock")) ],
                       shop_db.orders)
         ELSE /\ Len(shop_db.orders) < MaxOrders
              /\ \E quantity \in 1..MaxQuantity :
                   ShopStep([ shop EXCEPT !.page =
                                [ page EXCEPT !.quantity = quantity,
                                              !.session = "open",
                                              !.orders_before = shop_db.orders,
                                              !.pc = "create_order_commit" ] ],
                            shop_db.orders)

\* except Exception in create_order: session.rollback(); session.close();
\* st.error; return None; `if order` is false and order_creation_view ends
create_order_except(page) ==
    order_creation_view_return(
        [ st_print(page, "order_error") EXCEPT !.session = "closed",
                                               !.returned = "None" ])

\* The row the commit inserts; in_stock_at_insert records the product's
\* flag in the database at that moment.
OrderRow(product_id, quantity) ==
    [ product_id |-> product_id, quantity |-> quantity,
      in_stock_at_insert |-> shop_db.in_stock[product_id] ]

\* session.commit(): the server refuses the row when the orders table is
\* not there or the product row it refers to is not (the foreign key)
create_order_commit ==
    LET page == shop.page IN
    /\ page.pc = "create_order_commit"
    /\ \E ok \in BOOLEAN :
         IF ok /\ shop_db.tables /\ page.selected \in DOMAIN shop_db.in_stock
         THEN ShopStep([ shop EXCEPT !.page.pc = "create_order_refresh",
                                     !.page.committed = @ + 1 ],
                       Append(shop_db.orders,
                              OrderRow(page.selected, page.quantity)))
         ELSE ShopStep([ shop EXCEPT !.page = create_order_except(page) ],
                       shop_db.orders)

\* session.refresh(new_order), which raises when the row is gone;
\* order_dict; session.close(); return order_dict; st.success; st.rerun()
\* ends the run
create_order_refresh ==
    LET page == shop.page IN
    /\ page.pc = "create_order_refresh"
    /\ \E ok \in BOOLEAN :
         IF ok /\ Len(shop_db.orders) = Len(page.orders_before) + 1
         THEN ShopStep([ shop EXCEPT !.page =
                           page_done([ st_print(page, "order_created") EXCEPT
                                         !.session = "closed",
                                         !.returned = "order" ]) ],
                       shop_db.orders)
         ELSE ShopStep([ shop EXCEPT !.page = create_order_except(page) ],
                       shop_db.orders)

\* orders_list_view(): orders = get_orders(); if not orders: st.info; the
\* run of the script ends
orders_list_view ==
    LET page == shop.page IN
    /\ page.pc = "orders_list_view"
    /\ \E ok \in BOOLEAN :
         LET c == get_orders(ok)
             page1 == st_replay(page, c.elements)
         IN ShopStep([ shop EXCEPT
                         !.orders_cache = << c >>,
                         !.page = page_done(IF c.value = <<>>
                                            THEN st_print(page1, "no_orders_found")
                                            ELSE page1) ],
                     shop_db.orders)

\* ------------------------------------------------------ the specification
\* A subscription row as an earlier run of this script leaves it.
ConfiguredSubscription ==
    SubscriptionRow(subscription_name_const,
                    connection_string(PRIMARY_DB_CONFIG), publication_name_const)

\* A subscription of the same name that was not made by this script: it
\* follows another publication of the primary.
ForeignSubscription ==
    SubscriptionRow(subscription_name_const,
                    connection_string(PRIMARY_DB_CONFIG), "other_publication")

\* The two databases as database_setup.py leaves them when run for both
\* endpoints: the tables on both, the sample product on the primary.
SetUpDatabases ==
    [ e \in Endpoints |->
        [ tables |-> TableNames,
          products |-> IF e = "PRIMARY" THEN << 1 >> ELSE <<>> ] ]

\* The two databases as replication_setup.py may find them: database_setup.py
\* never run, or run for both endpoints.
ReplicationDatabases == { [ e \in Endpoints |-> NoDatabase ], SetUpDatabases }

\* The repository's other scripts are not running.
DatabaseSetupIdle ==
    /\ database = [ e \in Endpoints |-> NoDatabase ]
    /\ setup = IdleSetup
StreamlitIdle ==
    /\ shop_db = [ tables |-> TRUE, in_stock |-> [ id \in ProductIds |-> TRUE ],
                   created_at |-> [ id \in ProductIds |-> 1 ], orders |-> <<>> ]
    /\ shop = IdleShop
    /\ app = IdleApp

InitFrom(databases) ==
    /\ server \in ServerSettings
    /\ pg_publication \in { <<>>, << "other_publication" >>,
                            << publication_name_const >> }
    /\ pg_subscription \in { <<>>, << ConfiguredSubscription >>,
                             << ForeignSubscription >> }
    /\ database \in databases
    /\ pg_subscription_rel =
         LET published == PublishedTables(database["PRIMARY"].tables) IN
         [ i \in 1..(Len(pg_subscription) * Len(published)) |->
             SubscriptionRelRow(subscription_name_const, published[i], "r") ]
    /\ run = [ p \in Procs |-> IdleRun ]
    /\ history = NoHistory
    /\ setup = IdleSetup
    /\ StreamlitIdle

\* The script is run after database_setup.py has set up both databases.
Init == InitFrom({ SetUpDatabases })

\* One step of process p's run of the script, once main() has begun.
Body(p) ==
    \/ check_env_vars(p)
    \/ connect_to_database_connect(p)
    \/ connect_to_database_probe(p)
    \/ check_logical_replication_settings_connect(p)
    \/ check_logical_replication_settings_wal_level(p)
    \/ check_logical_replication_settings_slots(p)
    \/ check_logical_replication_settings_senders(p)
    \/ create_publication_connect(p)
    \/ create_publication_check(p)
    \/ create_publication_create(p)
    \/ create_publication_commit(p)
    \/ create_subscription_connect(p)
    \/ create_subscription_check(p)
    \/ create_subscription_create(p)
    \/ check_replication_status_connect(p)
    \/ check_replication_status_subscriptions(p)
    \/ check_replication_status_relations(p)

\* The script is run by one operator, one run after the other, any number
\* of times.
Next == server_parameters_updated \/ apply_worker \/ main(1) \/ Body(1)

Spec == Init /\ [][Next]_vars

\* Two operators each run the script once against the same pair of servers,
\* the primary's parameters set as recommended, database_setup.py run for
\* both databases or for none.
InitRace ==
    /\ InitFrom(ReplicationDatabases)
    /\ server = [ wal_level |-> "logical",
                  max_replication_slots |-> MinReplicationSlots,
                  max_wal_senders |-> MinWalSenders ]

main_once(p) ==
    /\ run[p].pc = "idle"
    /\ main(p)

NextRace == apply_worker \/ \E p \in Procs : main_once(p) \/ Body(p)

SpecRace == InitRace /\ [][NextRace]_vars

\* One operator runs the script any number of times against a primary set up
\* as recommended, while the replica's operator may drop its subscriptions
\* at any moment.
NextDropped == subscription_dropped \/ apply_worker \/ main(1) \/ Body(1)

SpecDropped == InitRace /\ [][NextDropped]_vars

\* ================================================================ claims
IsPrefix(a, b) == Len(a) <= Len(b) /\ a = SubSeq(b, 1, Len(a))
StmtsTo(r, target) == { i \in 1..Len(r.stmts) : r.stmts[i].target = target }
StmtsOf(r, sql) == { i \in 1..Len(r.stmts) : r.stmts[i].sql = sql }
\* A failure the servers or the environment caused, as opposed to the script
\* creating what already exists.
ExternalFaults == {"config", "connect", "statement", "wal_level"}

\* C1: within a run the stages are entered in the order primary connect,
\* preflight, publication, replica connect, subscription, status report; a
\* stage is entered only when every earlier one succeeded; nothing (not even a
\* connection) is issued to the replica before the publication stage succeeded.
C1_StagesInOrder ==
    \A p \in Procs :
        LET r == run[p] IN
        /\ IsPrefix(r.stages, Stages)
        /\ \A i \in 1..Len(r.stages) :
             \A j \in 1..(i - 1) : r.outcome[Stages[j]] = "ok"
        /\ StmtsTo(r, "REPLICA") # {} => r.outcome["publication"] = "ok"

\* C1 witness: a run that went through all six stages and returned.
C1_Witness ==
    /\ run[1].pc = "Done"
    /\ run[1].stages = Stages
    /\ StmtsTo(run[1], "REPLICA") # {}

\* C2: whenever SHOW wal_level returned a value other than "logical", the
\* preflight reported not ready and the run is Failed (exit code 1), having
\* issued neither the publication existence check nor CREATE PUBLICATION and
\* nothing to the replica; and while the primary's wal_level is not "logical"
\* a run in progress never gets past the preflight.
C2_NotLogicalHalts ==
    \A p \in Procs :
        LET r == run[p] IN
        /\ r.wal_level \notin {"unread", "logical"} =>
              /\ r.outcome["preflight"] = "failed"
              /\ r.pc = "Failed" /\ r.exit_code = 1
              /\ StmtsOf(r, "SELECT COUNT(*) FROM pg_publication") = {}
              /\ StmtsOf(r, "CREATE PUBLICATION") = {}
              /\ StmtsTo(r, "REPLICA") = {}
              /\ r.stages = << "primary_connect", "preflight" >>
        /\ (Running(r) /\ server.wal_level # "logical") =>
              /\ IsPrefix(r.stages, << "primary_connect", "preflight" >>)
              /\ StmtsOf(r, "SELECT COUNT(*) FROM pg_publication") = {}
              /\ StmtsOf(r, "CREATE PUBLICATION") = {}
              /\ StmtsTo(r, "REPLICA") = {}

\* C2 witness: a run that read wal_level = "replica" and ended Failed.
C2_Witness ==
    /\ run[1].wal_level = "replica"
    /\ run[1].pc = "Failed"
    /\ HasMsg(run[1], "wal_level_warning")

\* C3 as claimed: whenever the publication (resp. subscription) was already
\* there and create_publication (resp. create_subscription) has returned, it
\* returned success, without an error and without a CREATE.
C3_ExistingAlwaysSucceeds ==
    \A p \in Procs :
        LET r == run[p] IN
        /\ (r.pub_before /\ r.outcome["publication"] # "none") =>
              /\ r.outcome["publication"] = "ok"
              /\ ~HasMsg(r, "publication_error")
              /\ StmtsOf(r, "CREATE PUBLICATION") = {}
        /\ (r.sub_before /\ r.outcome["subscription"] # "none") =>
              /\ r.outcome["subscription"] = "ok"
              /\ ~HasMsg(r, "subscription_error")
              /\ StmtsOf(r, "CREATE SUBSCRIPTION") = {}

\* C3, amended: a run that starts with the publication (resp. subscription)
\* of the target name already there never issues a CREATE for it; its stage
\* returns success as soon as the existence query has answered, and fails
\* only when the server refuses the connection or the existence query; no
\* step changes a catalog that already holds the name, however often the
\* script runs, and the catalog keeps exactly one row of that name.
C3_ExistingIsNoOp ==
    /\ [](\A p \in Procs :
            LET r == run[p] IN
            /\ r.pub_before =>
                 /\ StmtsOf(r, "CREATE PUBLICATION") = {}
                 /\ r.outcome["publication"] = "failed" =>
                        /\ r.fault \in {"connect", "statement"}
                        /\ ~HasMsg(r, "publication_exists")
                        /\ \/ StmtsOf(r, "SELECT COUNT(*) FROM pg_publication") = {}
                           \/ r.fault = "statement"
                 /\ HasMsg(r, "publication_exists") =>
                        r.outcome["publication"] = "ok"
                 /\ r.pc \notin {"pub_create", "pub_commit"}
                 /\ Cardinality(PublicationRows(pg_publication)) = 1
            /\ r.sub_before =>
                 /\ StmtsOf(r, "CREATE SUBSCRIPTION") = {}
                 /\ r.outcome["subscription"] = "failed" =>
                        /\ r.fault \in {"connect", "statement"}
                        /\ ~HasMsg(r, "subscription_exists")
                        /\ \/ StmtsOf(r, "SELECT COUNT(*) FROM pg_subscription") = {}
                           \/ r.fault = "statement"
                 /\ HasMsg(r, "subscription_exists") =>
                        r.outcome["subscription"] = "ok"
                 /\ r.pc # "sub_create"
                 /\ Cardinality(SubscriptionRows(pg_subscription)) = 1)
    /\ [][ /\ PublicationRows(pg_publication) # {} =>
                pg_publication' = pg_publication
           /\ SubscriptionRows(pg_subscription) # {} =>
                pg_subscription' = pg_subscription ]_vars

\* C3 witness: a second run in a row that found both already there and
\* returned, the catalogs holding one row each.
C3_Witness ==
    /\ history.exit_code = 0 /\ history.created = {}
    /\ run[1].pc = "Done"
    /\ run[1].pub_before /\ run[1].sub_before
    /\ HasMsg(run[1], "publication_exists")
    /\ HasMsg(run[1], "subscription_exists")

\* C4: a run that starts with neither the publication nor the subscription
\* and returns has issued exactly one CREATE PUBLICATION and, after it,
\* exactly one CREATE SUBSCRIPTION, whose row names that publication; it ends
\* Failed only on a failure the servers or the environment caused.  The run
\* after such a run finds both, issues no CREATE, and ends Failed only on such
\* a failure too (otherwise it returns, having reported both as existing).
C4_CreateOnceThenDetect ==
    \A p \in Procs :
        LET r == run[p]
            pubs == StmtsOf(r, "CREATE PUBLICATION")
            subs == StmtsOf(r, "CREATE SUBSCRIPTION")
        IN
        /\ (~r.pub_before /\ ~r.sub_before) =>
             /\ r.pc = "Failed" => r.fault \in ExternalFaults
             /\ r.pc = "Done" =>
                  /\ Cardinality(pubs) = 1 /\ Cardinality(subs) = 1
                  /\ \A i \in pubs : \A j \in subs : i < j
                  /\ Created(r) = {"pub_created", "sub_created"}
                  /\ Cardinality(PublicationRows(pg_publication)) = 1
                  /\ \E i \in SubscriptionRows(pg_subscription) :
                        /\ SubscriptionRows(pg_subscription) = {i}
                        /\ pg_subscription[i].subpublications =
                               << publication_name_const >>
        /\ (history.exit_code = 0
                /\ history.created = {"pub_created", "sub_created"}
                /\ r.pc # "idle") =>
             /\ r.pub_before /\ r.sub_before
             /\ pubs = {} /\ subs = {}
             /\ r.pc = "Failed" => r.fault \in ExternalFaults
             /\ r.pc = "Done" =>
                  /\ HasMsg(r, "publication_exists")
                  /\ HasMsg(r, "subscription_exists")
                  /\ Created(r) = {}

\* C4 witness: the second run, returned, after a first run that created both.
C4_Witness ==
    /\ history.exit_code = 0
    /\ history.created = {"pub_created", "sub_created"}
    /\ ~history.failed_before
    /\ run[1].pc = "Done"
    /\ StmtsOf(run[1], "SELECT COUNT(*) FROM pg_subscription") # {}

\* C5: once check_env_vars has run, a required variable that is absent or
\* empty means the run is Failed with exit code 1 and has issued nothing, not
\* even a connection attempt; and whatever a run issues, it issues after the
\* configuration check passed.
C5_MissingConfigNoConnection ==
    \A p \in Procs :
        LET r == run[p]
            unset == { v \in RequiredVarSet : r.env[v] \in {"absent", "empty"} }
        IN
        /\ (unset # {} /\ r.pc \notin {"idle", "check_env_vars"}) =>
             /\ r.pc = "Failed" /\ r.exit_code = 1
             /\ r.stmts = <<>> /\ r.stages = <<>>
             /\ r.config_ok = "failed"
        /\ r.stmts # <<>> => (r.config_ok = "ok" /\ unset = {})
        /\ r.stages # <<>> => (r.config_ok = "ok" /\ unset = {})

\* C5 witness: a run with an empty (not absent) required variable, Failed.
C5_Witness ==
    /\ run[1].pc = "Failed"
    /\ run[1].env["AZURE_POSTGRES_REPLICA_SERVER_NAME"] = "empty"
    /\ HasMsg(run[1], "missing_env")

\* What a run printed about its stages.
HasMsgArg(r, tag, arg) ==
    \E i \in 1..Len(r.out) : r.out[i].msg = tag /\ r.out[i].arg = arg
AllSucceeded(r) ==
    /\ ~HasMsg(r, "missing_env") /\ r.config_ok = "ok"
    /\ HasMsgArg(r, "connected", << "PRIMARY" >>)
    /\ HasMsg(r, "properly_configured")
    /\ HasMsg(r, "publication_exists") \/ HasMsg(r, "pub_created")
    /\ HasMsgArg(r, "connected", << "REPLICA" >>)
    /\ HasMsg(r, "subscription_exists") \/ HasMsg(r, "sub_created")
SomeFailed(r) ==
    \/ HasMsg(r, "missing_env")
    \/ HasMsg(r, "connect_error")
    \/ HasMsg(r, "settings_error") \/ HasMsg(r, "wal_level_warning")
    \/ HasMsg(r, "publication_error")
    \/ HasMsg(r, "subscription_error")

\* C6: a run ends with exit code 0 exactly when the configuration check, both
\* connections, the preflight, the publication stage and the subscription
\* stage all succeeded, and with exit code 1 exactly when one of them failed;
\* a failure of any of them ends the run at once.
C6_ExitCode ==
    \A p \in Procs :
        LET r == run[p] IN
        /\ Terminated(r) =>
             /\ r.exit_code \in {0, 1}
             /\ r.exit_code = 0 <=> AllSucceeded(r)
             /\ r.exit_code = 1 <=> SomeFailed(r)
             /\ r.exit_code = 0 <=> r.pc = "Done"
        /\ ~Terminated(r) => r.exit_code = NoExit
        /\ SomeFailed(r) => (r.pc = "Failed" /\ r.exit_code = 1)

\* C6 witness: a run that got as far as create_subscription, which failed.
C6_Witness ==
    /\ run[1].exit_code = 1
    /\ HasMsg(run[1], "subscription_error")
    /\ HasMsgArg(run[1], "connected", << "REPLICA" >>)

\* C7: a failure inside check_replication_status (opening its connection,
\* either query) is swallowed: the run has returned with exit code 0, every
\* earlier stage having succeeded; a run that entered the status report is
\* never Failed.
C7_StatusFailureSwallowed ==
    \A p \in Procs :
        LET r == run[p] IN
        /\ HasMsg(r, "status_error") =>
             /\ r.pc = "Done" /\ r.exit_code = 0
             /\ AllSucceeded(r)
             /\ r.outcome["status_report"] = "failed"
        /\ (\E i \in 1..Len(r.stages) : r.stages[i] = "status_report") =>
             /\ r.pc # "Failed" /\ r.exit_code # 1
             /\ ~SomeFailed(r)

\* C7 witness: the status report could not open its connection, the run
\* returned.
C7_Witness ==
    /\ run[1].pc = "Done"
    /\ HasMsg(run[1], "status_error")
    /\ StmtsOf(run[1], "SELECT FROM pg_subscription") = {}

\* C8: no step removes or alters a row of either catalog (each step leaves
\* the catalog as it was or appends to it), and a run that created the
\* publication and then ended Failed leaves that publication on the primary.
C8_NoRollback ==
    /\ [][ /\ IsPrefix(pg_publication, pg_publication')
           /\ IsPrefix(pg_subscription, pg_subscription') ]_vars
    /\ [](\A p \in Procs :
            LET r == run[p] IN
            (r.pc = "Failed" /\ HasMsg(r, "pub_created")) =>
                Cardinality(PublicationRows(pg_publication)) = 1)

\* C8 witness: a run created the publication, then CREATE SUBSCRIPTION failed.
C8_Witness ==
    /\ run[1].pc = "Failed"
    /\ HasMsg(run[1], "pub_created")
    /\ StmtsOf(run[1], "CREATE SUBSCRIPTION") # {}
    /\ PublicationRows(pg_publication) # {}

\* C9: after some run ended Failed, a run that returns has issued CREATE
\* PUBLICATION exactly if the publication was missing when it started and
\* CREATE SUBSCRIPTION exactly if the subscription was, each once, and leaves
\* exactly one publication and one subscription of the target names; such a
\* run ends Failed only on a failure the servers or the environment caused.
C9_RecoveryByRerun ==
    \A p \in Procs :
        LET r == run[p] IN
        (history.failed_before /\ r.pc # "idle") =>
            /\ r.pc = "Failed" => r.fault \in ExternalFaults
            /\ r.pc = "Done" =>
                 /\ Cardinality(StmtsOf(r, "CREATE PUBLICATION")) =
                        (IF r.pub_before THEN 0 ELSE 1)
                 /\ Cardinality(StmtsOf(r, "CREATE SUBSCRIPTION")) =
                        (IF r.sub_before THEN 0 ELSE 1)
                 /\ Cardinality(PublicationRows(pg_publication)) = 1
                 /\ Cardinality(SubscriptionRows(pg_subscription)) = 1

\* C9 witness: the run before created the publication and ended Failed; this
\* run found the publication, created the subscription and returned.
C9_Witness ==
    /\ history.exit_code = 1 /\ history.created = {"pub_created"}
    /\ run[1].pc = "Done"
    /\ run[1].pub_before /\ ~run[1].sub_before
    /\ Created(run[1]) = {"sub_created"}

\* C10: once check_logical_replication_settings has read wal_level and
\* returned, it returned True exactly when wal_level is "logical", whatever
\* came of reading max_replication_slots and max_wal_senders.
C10_ReadyIffLogical ==
    \A p \in Procs :
        LET r == run[p] IN
        (r.wal_level # "unread" /\ r.outcome["preflight"] # "none") =>
            (r.outcome["preflight"] = "ok" <=> r.wal_level = "logical")

\* The messages of a run that carry a tag, in the order printed.
MsgsOf(r, tag) == SelectSeq(r.out, LAMBDA m : m.msg = tag)

\* C11: once the preflight has read wal_level as "logical" and both numeric
\* settings, it has printed exactly one warning, carrying the value read, for
\* each of max_replication_slots below 5 and max_wal_senders below 10, none
\* for a value at or above its minimum, and it has returned true: the
\* publication stage is entered whatever the two values are.
C11_WarningsDoNotBlock ==
    \A p \in Procs :
        LET r == run[p]
            slots == MsgsOf(r, "max_replication_slots_warning")
            senders == MsgsOf(r, "max_wal_senders_warning")
        IN
        /\ r.replication_slots # <<>> =>
              /\ r.wal_level = "logical"
              /\ slots = IF r.replication_slots[1] < 5
                         THEN << Msg("max_replication_slots_warning",
                                     r.replication_slots) >>
                         ELSE <<>>
        /\ r.wal_senders # <<>> =>
              /\ r.replication_slots # <<>>
              /\ senders = IF r.wal_senders[1] < 10
                           THEN << Msg("max_wal_senders_warning", r.wal_senders) >>
                           ELSE <<>>
              /\ r.outcome["preflight"] = "ok"
              /\ HasMsg(r, "properly_configured")
              /\ ~HasMsg(r, "not_configured")
              /\ "publication" \in { r.stages[i] : i \in 1..Len(r.stages) }
        /\ r.replication_slots = <<>> => slots = <<>>
        /\ r.wal_senders = <<>> => senders = <<>>

\* C11 witness: wal_level logical, 3 slots and 10 senders: one warning, about
\* the slots, and the run went on and completed.
C11_Witness ==
    /\ run[1].pc = "Done"
    /\ run[1].wal_level = "logical"
    /\ run[1].replication_slots = << 3 >>
    /\ run[1].wal_senders = << 10 >>
    /\ Len(MsgsOf(run[1], "max_replication_slots_warning")) = 1
    /\ MsgsOf(run[1], "max_wal_senders_warning") = <<>>


\* C12: two runs interleave against the same primary.  At most one of them
\* creates the publication and the catalog never holds more than one row of
\* the name; a run whose CREATE PUBLICATION is refused because the other
\* run's creation was committed after this run's existence check has exited
\* with code 1, has not entered the replica stages and has sent nothing to
\* the replica, and the primary holds exactly one publication of the name.
C12_RaceLoserFails ==
    /\ Cardinality(PublicationRows(pg_publication)) <= 1
    /\ Cardinality({ p \in Procs : HasMsg(run[p], "pub_created") }) <= 1
    /\ \A p \in Procs :
         LET r == run[p] IN
         /\ HasMsg(r, "pub_created") =>
               Cardinality(PublicationRows(pg_publication)) = 1
         /\ (r.fault = "duplicate" /\ r.outcome["publication"] = "failed") =>
               /\ Issued(r, "PRIMARY", "CREATE PUBLICATION") # {}
               /\ r.pc = "Failed"
               /\ r.exit_code = 1
               /\ HasMsg(r, "publication_error")
               /\ StmtsTo(r, "REPLICA") = {}
               /\ \A i \in 1..Len(r.stages) :
                     r.stages[i] \notin {"replica_connect", "subscription",
                                         "status_report"}
               /\ Cardinality(PublicationRows(pg_publication)) = 1
               /\ \E q \in Procs \ {p} :
                     /\ HasMsg(run[q], "pub_created")
                     /\ Issued(run[q], "PRIMARY", "CREATE PUBLICATION") # {}

\* C12 witness: both runs found no publication and issued CREATE
\* PUBLICATION; the first committed, the second was refused and exited.
C12_Witness ==
    /\ HasMsg(run[1], "pub_created")
    /\ Issued(run[2], "PRIMARY", "SELECT COUNT(*) FROM pg_publication") # {}
    /\ Issued(run[2], "PRIMARY", "CREATE PUBLICATION") # {}
    /\ run[2].fault = "duplicate"
    /\ run[2].pc = "Failed"
    /\ Cardinality(PublicationRows(pg_publication)) = 1


\* C13 as claimed: whenever create_subscription returned True, the replica
\* holds a subscription of the target name that follows products_publication
\* through the connection string of the configured primary, also when the
\* subscription was there before the call.
C13_SuccessMeansBound ==
    \A p \in Procs :
        run[p].outcome["subscription"] = "ok" =>
            \E i \in SubscriptionRows(pg_subscription) :
                /\ pg_subscription[i].subpublications = << "products_publication" >>
                /\ pg_subscription[i].subconninfo.host = PRIMARY_DB_CONFIG.host

\* C13 amended: whenever create_subscription returned True, the replica holds
\* exactly one subscription of the target name.  When this call created it,
\* it follows products_publication (the name create_publication returned)
\* through the connection string assembled from the primary's configuration.
\* When it was already there only its name was looked at: the call issued no
\* CREATE SUBSCRIPTION and the row is the one found.
C13_SuccessMeansNamed ==
    \A p \in Procs :
        LET r == run[p] IN
        r.outcome["subscription"] = "ok" =>
            /\ Cardinality(SubscriptionRows(pg_subscription)) = 1
            /\ HasMsg(r, "sub_created") \/ HasMsg(r, "subscription_exists")
            /\ HasMsg(r, "sub_created") =>
                  \A i \in SubscriptionRows(pg_subscription) :
                      /\ r.publication_name = "products_publication"
                      /\ pg_subscription[i].subpublications = << r.publication_name >>
                      /\ pg_subscription[i].subconninfo =
                            [ host |-> PRIMARY_DB_CONFIG.host,
                              dbname |-> PRIMARY_DB_CONFIG.database,
                              user |-> PRIMARY_DB_CONFIG.user,
                              password |-> PRIMARY_DB_CONFIG.password,
                              sslmode |-> PRIMARY_DB_CONFIG.sslmode ]
            /\ HasMsg(r, "subscription_exists") =>
                  /\ r.sub_before
                  /\ Issued(r, "REPLICA", "CREATE SUBSCRIPTION") = {}

\* C13 witness: one run created the subscription and a later run found it.
C13_Witness ==
    /\ run[1].outcome["subscription"] = "ok"
    /\ HasMsg(run[1], "subscription_exists")
    /\ "sub_created" \in history.created


\* C14: whenever create_publication has returned a name, the primary's
\* committed catalog holds a publication of that name; a run that reports
\* having created it has committed its CREATE; and a run in which the
\* connection, the existence query, the CREATE or the commit raised got no
\* name (None) and no success message.
C14_ReturnedNameIsCommitted ==
    \A p \in Procs :
        LET r == run[p] IN
        /\ r.outcome["publication"] = "ok" =>
              /\ r.publication_name = publication_name_const
              /\ \E i \in 1..Len(pg_publication) :
                    pg_publication[i] = r.publication_name
              /\ HasMsg(r, "pub_created") \/ HasMsg(r, "publication_exists")
              /\ ~HasMsg(r, "publication_error")
        /\ HasMsg(r, "pub_created") =>
              /\ Issued(r, "PRIMARY", "CREATE PUBLICATION") # {}
              /\ Issued(r, "PRIMARY", "COMMIT") # {}
              /\ r.outcome["publication"] = "ok"
        /\ HasMsg(r, "publication_error") =>
              /\ r.outcome["publication"] = "failed"
              /\ r.publication_name = "None"
              /\ ~HasMsg(r, "pub_created")
        /\ r.publication_name # "None" => r.outcome["publication"] = "ok"

\* C14 witness: a run created and committed the publication and went on to
\* the replica.
C14_Witness ==
    /\ run[1].publication_name = publication_name_const
    /\ HasMsg(run[1], "pub_created")
    /\ ~run[1].pub_before
    /\ StmtsTo(run[1], "REPLICA") # {}


\* The program points inside a `with engine.connect()` block, and the
\* endpoint whose connection the block holds.
InsideWith(r) ==
    CASE r.pc = "probe" -> r.endpoint
      [] r.pc \in {"show_wal_level", "show_max_replication_slots",
                   "show_max_wal_senders", "pub_check", "pub_create",
                   "pub_commit"} -> "PRIMARY"
      [] r.pc \in {"sub_check", "sub_create", "status_subscriptions",
                   "status_relations"} -> "REPLICA"
      [] OTHER -> "none"

\* C15: a run holds a connection only while it is inside the `with` block of
\* the stage that opened it, and then the one to that stage's endpoint: at
\* every point between stages (a stage has returned, normally, early or
\* through its exception handler) and when the run has ended as Done or
\* Failed, no connection is held.
C15_ConnectionsScoped ==
    \A p \in Procs :
        LET r == run[p] IN
        /\ r.conn.target = InsideWith(r)
        /\ InsideWith(r) = "none" => r.conn = NoConn
        /\ Terminated(r) => r.conn = NoConn

\* C15 witness: a statement raised inside create_subscription's `with` block
\* (the fifth connection this run opened); the run ended holding none.
C15_Witness ==
    /\ run[1].pc = "Failed"
    /\ run[1].outcome["subscription"] = "failed"
    /\ run[1].fault = "statement"
    /\ Cardinality(StmtsOf(run[1], "CONNECT")) = 5
    /\ run[1].conn = NoConn


\* C16: when the run is about to execute CREATE SUBSCRIPTION, the connection
\* it holds is the replica connection opened in AUTOCOMMIT mode, with no
\* transaction open and nothing pending on it, although the existence query
\* was the statement executed on that connection just before; each CREATE
\* SUBSCRIPTION in the log directly follows that query and the opening of
\* the connection, and the server never refused one for being inside a
\* transaction block.
C16_CreateSubscriptionAutocommit ==
    \A p \in Procs :
        LET r == run[p]
            n == Len(r.stmts)
        IN
        /\ r.pc = "sub_create" =>
              /\ r.conn.target = "REPLICA"
              /\ r.conn.autocommit
              /\ ~r.conn.intxn
              /\ r.conn.pending = <<>>
              /\ n >= 2
              /\ r.stmts[n] = Stmt("REPLICA", "SELECT COUNT(*) FROM pg_subscription")
              /\ r.stmts[n - 1] = Stmt("REPLICA", "CONNECT")
        /\ \A i \in StmtsOf(r, "CREATE SUBSCRIPTION") :
              /\ i >= 3
              /\ r.stmts[i - 1] = Stmt("REPLICA", "SELECT COUNT(*) FROM pg_subscription")
              /\ r.stmts[i - 2] = Stmt("REPLICA", "CONNECT")
        /\ r.fault # "in_transaction"

\* C16 witness: the existence query found nothing and CREATE SUBSCRIPTION was
\* executed and took effect at once.
C16_Witness ==
    /\ StmtsOf(run[1], "CREATE SUBSCRIPTION") # {}
    /\ HasMsg(run[1], "sub_created")
    /\ ~run[1].sub_before
    /\ SubscriptionRows(pg_subscription) # {}


\* C17: a run whose status report found no subscription on the replica has
\* printed "No subscriptions found.", has printed no status error, has not
\* issued the per-relation query, and has ended as Done with exit code 0;
\* the subscription listing is printed, and the per-relation query issued,
\* only for a non-empty result.
C17_NoSubscriptionsReported ==
    \A p \in Procs :
        LET r == run[p] IN
        /\ HasMsg(r, "no_subscriptions") =>
              /\ r.pc = "Done"
              /\ r.exit_code = 0
              /\ r.outcome["status_report"] = "ok"
              /\ ~HasMsg(r, "status_error")
              /\ ~HasMsg(r, "subscription_status")
              /\ StmtsOf(r, "SELECT FROM pg_subscription_rel") = {}
              /\ HasMsg(r, "completed")
        /\ \A i \in 1..Len(r.out) :
              r.out[i].msg = "subscription_status" => r.out[i].arg # <<>>
        /\ (r.pc = "status_relations"
               \/ StmtsOf(r, "SELECT FROM pg_subscription_rel") # {}) =>
              HasMsg(r, "subscription_status")

\* C17 witness: the subscription was dropped after create_subscription
\* returned; the status report found none and the run completed.
C17_Witness ==
    /\ run[1].pc = "Done"
    /\ run[1].outcome["subscription"] = "ok"
    /\ HasMsg(run[1], "no_subscriptions")
    /\ pg_subscription = <<>>


\* The program points of the two read-only stages.
SettingsPcs == {"settings_connect", "show_wal_level",
                "show_max_replication_slots", "show_max_wal_senders"}
StatusPcs == {"status_connect", "status_subscriptions", "status_relations"}

\* C18: no step of check_logical_replication_settings and no step of
\* check_replication_status, whether the call it makes returns or raises,
\* changes the primary's settings, the publication catalog, the replica's
\* subscription catalog or the relation sync states; the connection such a
\* step leaves open holds nothing uncommitted.
C18_ReadOnlyStages ==
    [][ \A p \in Procs :
          (run[p].pc \in SettingsPcs \cup StatusPcs /\ run'[p] # run[p]) =>
              /\ server' = server
              /\ pg_publication' = pg_publication
              /\ pg_subscription' = pg_subscription
              /\ pg_subscription_rel' = pg_subscription_rel
              /\ run'[p].conn.pending = <<>> ]_vars

\* C18 witness: a run whose preflight read all three settings and whose
\* status report listed a subscription and then failed in its per-relation
\* query, with sync states on the replica.
C18_Witness ==
    /\ run[1].pc = "Done"
    /\ run[1].wal_senders # <<>>
    /\ HasMsg(run[1], "subscription_status")
    /\ HasMsg(run[1], "status_error")
    /\ pg_subscription_rel # <<>>


\* The program points of a run in the order the code reaches them, those of
\* connect_to_database once per endpoint; the last stands for both ends.
ProgramOrder ==
    << << "check_env_vars", "-" >>,
       << "connect", "PRIMARY" >>, << "probe", "PRIMARY" >>,
       << "settings_connect", "-" >>, << "show_wal_level", "-" >>,
       << "show_max_replication_slots", "-" >>, << "show_max_wal_senders", "-" >>,
       << "pub_connect", "-" >>, << "pub_check", "-" >>, << "pub_create", "-" >>,
       << "pub_commit", "-" >>,
       << "connect", "REPLICA" >>, << "probe", "REPLICA" >>,
       << "sub_connect", "-" >>, << "sub_check", "-" >>, << "sub_create", "-" >>,
       << "status_connect", "-" >>, << "status_subscriptions", "-" >>,
       << "status_relations", "-" >>, << "end", "-" >> >>
Position(r) ==
    LET key == IF Terminated(r) THEN << "end", "-" >>
               ELSE IF r.pc \in {"connect", "probe"} THEN << r.pc, r.endpoint >>
               ELSE << r.pc, "-" >>
    IN CHOOSE i \in 1..Len(ProgramOrder) : ProgramOrder[i] = key

\* C19: a running script can always take its next step (each database call
\* returns or raises), and every step moves it strictly forward in the
\* program order, so a run ends within as many steps as there are program
\* points; it ends as Done with exit code 0 or as Failed with exit code 1 and
\* then stays as it ended; no stage is entered twice; and a failed stage
\* other than the status report is the last stage the run entered, the run
\* having ended with it.
C19_RunsTerminate ==
    /\ [](\A p \in Procs :
            LET r == run[p] IN
            /\ Running(r) => ENABLED Body(p)
            /\ (r.pc = "Done") <=> (r.exit_code = 0)
            /\ (r.pc = "Failed") <=> (r.exit_code = 1)
            /\ \A i, j \in 1..Len(r.stages) : r.stages[i] = r.stages[j] => i = j
            /\ \A s \in StageSet \ {"status_report"} :
                  r.outcome[s] = "failed" =>
                      /\ r.pc = "Failed"
                      /\ r.stages[Len(r.stages)] = s)
    /\ [][ \A p \in Procs :
             run'[p] # run[p] =>
                 IF Running(run[p])
                 THEN Position(run'[p]) > Position(run[p])
                 ELSE run'[p].pc = "check_env_vars" /\ run'[p].stages = <<>> ]_vars

\* C19 witness: a run that failed in its fifth stage, after a run that
\* completed.
C19_Witness ==
    /\ run[1].pc = "Failed"
    /\ run[1].outcome["subscription"] = "failed"
    /\ Len(run[1].stages) = 5
    /\ history.exit_code = 0


\* The stage of setup_replication that calls connect_to_database for an
\* endpoint.
ConnectStage(endpoint) ==
    IF endpoint = "PRIMARY" THEN "primary_connect" ELSE "replica_connect"

\* C20: connect_to_database has returned an engine for an endpoint only if
\* the run opened a connection to that endpoint and executed SELECT 1 on it
\* and neither raised; every statement of a later stage on an endpoint comes
\* after such a return.  If opening the connection or the SELECT 1 raised,
\* the run has ended as Failed with exit code 1 and that attempt is the last
\* entry of its statement log: nothing was sent to either endpoint after it.
C20_ProbeBeforeHandle ==
    \A p \in Procs : \A e \in {"PRIMARY", "REPLICA"} :
        LET r == run[p]
            n == Len(r.stmts)
            connects == Issued(r, e, "CONNECT")
            probes == Issued(r, e, "SELECT 1")
        IN
        /\ r.outcome[ConnectStage(e)] = "ok" =>
              /\ HasMsgArg(r, "connected", << e >>)
              /\ ~HasMsgArg(r, "connect_error", << e >>)
              /\ Cardinality(probes) = 1
              /\ \A i \in probes :
                    /\ i - 1 \in connects
                    /\ \A j \in StmtsTo(r, e) : j >= i - 1
        /\ (\E i \in StmtsTo(r, e) : r.stmts[i].sql \notin {"CONNECT", "SELECT 1"}) =>
              r.outcome[ConnectStage(e)] = "ok"
        /\ Cardinality(connects) > 1 => r.outcome[ConnectStage(e)] = "ok"
        /\ HasMsgArg(r, "connect_error", << e >>) =>
              /\ r.pc = "Failed"
              /\ r.exit_code = 1
              /\ r.outcome[ConnectStage(e)] = "failed"
              /\ r.stages[Len(r.stages)] = ConnectStage(e)
              /\ Cardinality(connects) = 1
              /\ \/ r.stmts[n] = Stmt(e, "CONNECT")
                 \/ (r.stmts[n] = Stmt(e, "SELECT 1")
                       /\ r.stmts[n - 1] = Stmt(e, "CONNECT"))

\* C20 witness: the primary was probed and used, the probe of the replica
\* raised: the run ended there.
C20_Witness ==
    /\ run[1].outcome["primary_connect"] = "ok"
    /\ run[1].outcome["publication"] = "ok"
    /\ HasMsgArg(run[1], "connect_error", << "REPLICA" >>)
    /\ run[1].stmts[Len(run[1].stmts)] = Stmt("REPLICA", "SELECT 1")
    /\ run[1].pc = "Failed"


\* The passwords of the two endpoints.
Passwords == { PRIMARY_DB_CONFIG.password, REPLICA_DB_CONFIG.password }

\* The strings a printed message carries.  The subscription listing prints
\* each row's subconninfo, the connection string as CREATE SUBSCRIPTION
\* stored it; the warnings carry numbers only; an error message carries the
\* exception's text as well.
MsgStrings(m) ==
    { m.e[i] : i \in 1..Len(m.e) } \cup
    CASE m.msg = "subscription_status" ->
           UNION { { m.arg[i].subname, m.arg[i].subconninfo.host,
                     m.arg[i].subconninfo.dbname, m.arg[i].subconninfo.user,
                     m.arg[i].subconninfo.password,
                     m.arg[i].subconninfo.sslmode } : i \in 1..Len(m.arg) }
      [] m.msg = "replication_details" ->
           UNION { { m.arg[i].subname, m.arg[i].srsubstate,
                     m.arg[i].relation_name } : i \in 1..Len(m.arg) }
      [] m.msg \in {"max_replication_slots_warning", "max_wal_senders_warning"} -> {}
      [] OTHER -> { m.arg[i] : i \in 1..Len(m.arg) }

\* C21 as claimed: no message a run prints carries the password of an
\* endpoint; a connection failure names the endpoint only, and the status
\* report's connection info does not show the primary's password.
C21_NoPasswordPrinted ==
    \A p \in Procs :
        \A i \in 1..Len(run[p].out) :
            /\ MsgStrings(run[p].out[i]) \cap Passwords = {}
            /\ run[p].out[i].msg = "connect_error" =>
                  run[p].out[i].arg \in { << "PRIMARY" >>, << "REPLICA" >> }


\* ------------------------------------------- database_setup.py, specification
\* replication_setup.py is not running and has set up nothing.
ReplicationIdle ==
    /\ server = [ wal_level |-> "logical",
                  max_replication_slots |-> MinReplicationSlots,
                  max_wal_senders |-> MinWalSenders ]
    /\ pg_publication = <<>>
    /\ pg_subscription = <<>>
    /\ pg_subscription_rel = <<>>
    /\ run = [ p \in Procs |-> IdleRun ]
    /\ history = NoHistory

\* A database as database_setup.py may find it: any of the tables, and in a
\* products table no row or one.
DatabaseStates ==
    { d \in [ tables : SUBSET TableNames, products : { <<>>, << 1 >> } ] :
        d.products # <<>> => "products" \in d.tables }

InitSetup ==
    /\ ReplicationIdle
    /\ StreamlitIdle
    /\ database \in [ Endpoints -> DatabaseStates ]
    /\ setup = IdleSetup

\* The operator sets up one database after the other, any number of times.
NextSetup ==
    \E endpoint \in Endpoints :
        \/ setup_database(endpoint)
        \/ setup_connect(endpoint)
        \/ setup_probe(endpoint)
        \/ create_tables_check(endpoint)
        \/ create_tables_prompt(endpoint)
        \/ drop_tables(endpoint)
        \/ create_tables_create_all(endpoint)
        \/ load_sample_data_count(endpoint)
        \/ load_sample_data_read(endpoint)
        \/ load_sample_data_commit(endpoint)
        \/ query_data(endpoint)
        \/ query_data_products(endpoint)
        \/ query_data_categories(endpoint)
        \/ query_data_category_count(endpoint)
        \/ query_data_category_avg(endpoint)
        \/ query_data_in_stock(endpoint)

SpecSetup == InitSetup /\ [][NextSetup]_vars


\* C22 as claimed: create_tables drops tables only when the operator's
\* answer is "y"; after any other answer nothing was dropped or created.
C22_DropOnlyOnY ==
    /\ setup.dropped => setup.response = << "y" >>
    /\ (setup.asked /\ setup.response # << "y" >>) =>
          (~setup.dropped /\ ~setup.created)

\* The answers that consent: one letter y, small or capital, with nothing
\* but whitespace before and after it.
IsYes(response) ==
    \E i \in 1..Len(response) :
        /\ response[i] \in {"y", "Y"}
        /\ \A j \in 1..Len(response) : j # i => response[j] \in Whitespace

\* C22 amended: create_tables drops tables only after it asked and the
\* answer is a y, small or capital, with nothing but whitespace around it
\* (so also for "Y", " y " or a tab before the y); after any other answer
\* it has dropped and created nothing, the endpoint's tables are those it
\* found, and it has said that it uses the existing tables; it asks only
\* when products or orders exists, and when neither exists it creates the
\* tables without asking.
C22_DropOnlyOnConsent ==
    LET s == setup
        answer == IF IsYes(s.response) THEN << "y" >> ELSE << "other" >>
        found == "products" \in s.before.tables \/ "orders" \in s.before.tables
        printed == { s.out[i] : i \in 1..Len(s.out) }
    IN
    /\ s.dropped => (s.asked /\ answer = << "y" >> /\ found)
    /\ (s.asked /\ answer # << "y" >>) =>
          /\ ~s.dropped
          /\ ~s.created
          /\ database[s.endpoint].tables = s.before.tables
          /\ "create_error" \notin printed => "using_existing" \in printed
    /\ s.asked => found
    /\ s.created => (s.dropped \/ ~found)
    /\ (s.created /\ ~found) =>
          (~s.asked /\ TableNames \subseteq database[s.endpoint].tables)
    /\ s.pc \in {"load_count", "load_read", "load_commit", "Done"} \cup QueryPcs =>
          IF found
          THEN s.asked /\ (s.created <=> answer = << "y" >>)
          ELSE s.created

\* C22 witness: the tables existed, the operator answered with a tab, a
\* capital Y and a blank, the tables were dropped and created again.
C22_Witness ==
    /\ setup.response = << "\t", "Y", " " >>
    /\ setup.dropped
    /\ setup.created
    /\ setup.before.products # <<>>
    /\ database[setup.endpoint].products = <<>>


\* C23: load_sample_data has inserted rows only in a call with is_primary
\* true that found the products table empty, and then the table holds
\* exactly the sample set; a call on the replica, or one that found rows,
\* left the table as it found it and never got to reading the sample file.
\* No step of the script puts a row into the replica's products table, and
\* the primary's rows change only by a drop or by the one commit into the
\* empty table; no product id is ever in a table twice.
C23_SampleLoadedOnce ==
    /\ [](LET s == setup IN
          /\ s.inserted =>
                /\ s.is_primary
                /\ s.endpoint = "PRIMARY"
                /\ s.load_before = <<>>
                /\ database["PRIMARY"].products = s.products_data
          /\ (s.loading /\ (~s.is_primary \/ s.load_before # <<>>)) =>
                /\ ~s.inserted
                /\ database[s.endpoint].products = s.load_before
                /\ s.pc \notin {"load_read", "load_commit"}
                /\ s.products_data = <<>>
          /\ \A e \in Endpoints :
                \A i, j \in 1..Len(database[e].products) :
                    database[e].products[i] = database[e].products[j] => i = j)
    /\ [][ /\ database'["REPLICA"].products # database["REPLICA"].products =>
                database'["REPLICA"].products = <<>>
           /\ database'["PRIMARY"].products # database["PRIMARY"].products =>
                \/ database'["PRIMARY"].products = <<>>
                \/ /\ database["PRIMARY"].products = <<>>
                   /\ setup.pc = "load_commit"
                   /\ database'["PRIMARY"].products = setup.products_data ]_vars

\* C23 witness: a call on the primary found the two sample products an
\* earlier call had inserted, and skipped the import.
C23_Witness ==
    /\ setup.is_primary
    /\ setup.loading
    /\ setup.load_before = << 1, 2 >>
    /\ ~setup.inserted
    /\ database["PRIMARY"].products = << 1, 2 >>
    /\ setup.pc = "Done"


\* ------------------------------------------- streamlit_app.py, specification
\* One browser session, the other sessions that change the stock, and the
\* processes of app.py that drop, create and fill the tables.
\* The tables are there with both products, each in stock or not, inserted
\* by one transaction or by two; the .env
\* file is there or not, the app's environment is complete or lacks a
\* variable, and its configuration yields an engine or not.
InitShop ==
    /\ ReplicationIdle
    /\ DatabaseSetupIdle
    /\ shop_db \in [ tables : { TRUE }, in_stock : [ ProductIds -> BOOLEAN ],
                     created_at : { c \in [ ProductIds -> 1..2 ] :
                                      \E id \in ProductIds : c[id] = 1 },
                     orders : { <<>> } ]
    /\ shop \in { [ IdleShop EXCEPT !.env_file = f, !.env_set = s,
                                     !.create_engine_ok = c ] :
                     f \in BOOLEAN, s \in BOOLEAN, c \in BOOLEAN }
    /\ app = IdleApp

NextShop ==
    \/ stock_updated
    \/ app_drop_tables
    \/ app_create_tables
    \/ app_load_sample_data_count
    \/ \E t \in app : app_load_sample_data_commit(t)
    \/ cache_expires
    \/ main_page
    \/ product_list_view
    \/ order_creation_view
    \/ order_creation_view_product
    \/ order_creation_view_button
    \/ create_order_commit
    \/ create_order_refresh
    \/ orders_list_view

SpecShop == InitShop /\ [][NextShop]_vars

\* C24 as claimed: every order in the orders table was committed while its
\* product's in_stock flag was true in the database.
C24_OrderOnlyInStock ==
    \A i \in 1..Len(shop_db.orders) : shop_db.orders[i].in_stock_at_insert

\* C25 as claimed: when create_order has returned an order, the call has
\* committed exactly one row to the orders table; when it has returned None
\* it has committed none; either way the session is closed.
C25_AllOrNothing ==
    LET page == shop.page IN
    /\ page.returned = "order" =>
          /\ page.committed = 1
          /\ page.session = "closed"
    /\ page.returned = "None" =>
          /\ page.committed = 0
          /\ page.session = "closed"

=============================================================================
